---------------------------- MODULE Spec2Model ----------------------------
(***************************************************************************)
(* A model of the nRF24L01+ driver of nrf24.go.                            *)
(*                                                                         *)
(* The device (NRF24RPI) is shared by NumProcs caller goroutines.  Each    *)
(* caller runs one public operation at a time; an operation advances by    *)
(* one bus transfer (spiTransfer), one CE transition (setCE) or one        *)
(* blocking point (mutex, select) per step, so that every interleaving     *)
(* the Go scheduler allows is a behaviour of the model.  The radio is an   *)
(* interpreter of the SPI commands the driver sends, byte for byte; the    *)
(* air interface (a packet arriving, a transmission ending) and the IRQ    *)
(* line are the environment.                                               *)
(***************************************************************************)
EXTENDS Integers, Sequences, FiniteSets, TLC

(***************************************************************************)
(* Bounds of the model.                                                    *)
(***************************************************************************)
NumProcs == 2
MaxRxQueued == 2

Procs == 1..NumProcs
NoProc == 0

(***************************************************************************)
(* Register addresses, commands and bits (nrf24.go, const blocks).         *)
(***************************************************************************)
CONFIG == 0
EN_AA == 1
EN_RXADDR == 2
SETUP_AW == 3
SETUP_RETR == 4
RF_CH == 5
RF_SETUP == 6
STATUS == 7
RX_ADDR_P0 == 10
RX_ADDR_P1 == 11
TX_ADDR_REG == 16
RX_PW_P0 == 17
RX_PW_P1 == 18
DYNPD == 28
FEATURE == 29

W_REGISTER == 32
R_RX_PL_WID == 96
R_RX_PAYLOAD == 97
W_TX_PAYLOAD == 160
W_ACK_PAYLOAD == 168
W_TX_PAYLOAD_NOACK == 176
FLUSH_TX == 225
FLUSH_RX == 226
NOP == 255

PRIM_RX == 1
PWR_UP == 2
CRCO == 4
EN_CRC == 8
MAX_RT == 16
TX_DS == 32
RX_DR == 64
ERX_P0 == 1
ERX_P1 == 2
EN_DYN_ACK == 1
EN_ACK_PAY == 2
EN_DPL == 4

MAX_PAYLOAD_BYTES == 32

(***************************************************************************)
(* Byte arithmetic: Go's |, & and &^ on bytes.                             *)
(***************************************************************************)
Bit(v, i) == (v \div (2 ^ i)) % 2

\* The byte whose bit i is f[Bit(a, i), Bit(b, i)].
Bitwise(f, a, b) ==
    f[Bit(a, 0), Bit(b, 0)] + 2 * f[Bit(a, 1), Bit(b, 1)]
    + 4 * f[Bit(a, 2), Bit(b, 2)] + 8 * f[Bit(a, 3), Bit(b, 3)]
    + 16 * f[Bit(a, 4), Bit(b, 4)] + 32 * f[Bit(a, 5), Bit(b, 5)]
    + 64 * f[Bit(a, 6), Bit(b, 6)] + 128 * f[Bit(a, 7), Bit(b, 7)]

OrBits == <<<<0, 1>>, <<1, 1>>>>

AndBits == <<<<0, 0>>, <<0, 1>>>>

AndNotBits == <<<<0, 0>>, <<1, 0>>>>

Or(a, b) == Bitwise([x \in 0..1, y \in 0..1 |-> OrBits[x + 1][y + 1]], a, b)

And(a, b) == Bitwise([x \in 0..1, y \in 0..1 |-> AndBits[x + 1][y + 1]], a, b)

AndNot(a, b) == Bitwise([x \in 0..1, y \in 0..1 |-> AndNotBits[x + 1][y + 1]], a, b)


(***************************************************************************)
(* The radio: its register file, the two FIFOs and the transmitter.        *)
(* reg[STATUS] holds the three interrupt flags only; the STATUS byte the   *)
(* radio shifts out also carries RX_P_NO and TX_FULL, derived from the     *)
(* FIFOs.  miso tells what drives the line the driver reads: the chip, or *)
(* nothing (no chip answers and the line stays low, or stays high); it is  *)
(* "error" when the bus is broken and conn.Tx fails.                       *)
(***************************************************************************)
AddrRegs == {RX_ADDR_P0, RX_ADDR_P1, TX_ADDR_REG}

IrqFlags == RX_DR + TX_DS + MAX_RT

FifoDepth == 3

ResetRadio ==
    [reg |-> [a \in 0..29 |->
                 CASE a = CONFIG -> 8
                   [] a = EN_AA -> 63
                   [] a = EN_RXADDR -> 3
                   [] a = SETUP_AW -> 3
                   [] a = SETUP_RETR -> 3
                   [] a = RF_CH -> 2
                   [] a = RF_SETUP -> 14
                   [] OTHER -> 0],
     areg |-> [a \in AddrRegs |->
                 IF a = RX_ADDR_P1 THEN <<194, 194, 194, 194, 194>>
                                   ELSE <<231, 231, 231, 231, 231>>],
     rxFifo |-> <<>>,
     txFifo |-> <<>>,
     txActive |-> FALSE,
     miso |-> "chip"]

Flags(r) == r.reg[STATUS]

RxPNo(r) == IF r.rxFifo = <<>> THEN 7 ELSE r.rxFifo[1].pipe

StatusByte(r) == Flags(r) + 2 * RxPNo(r) + (IF Len(r.txFifo) = FifoDepth THEN 1 ELSE 0)

Zeros(n) == [i \in 1..n |-> 0]

\* The first n bytes of s, zero filled when s is shorter.
Take(s, n) == [i \in 1..n |-> IF i <= Len(s) THEN s[i] ELSE 0]

\* What the radio does with one SPI transaction, and the bytes it shifts out:
\* the STATUS byte first, then the answer to the command.
RadioExec(r, cmd) ==
    LET c == cmd[1]
        n == Len(cmd) - 1
        st == <<StatusByte(r)>>
    IN  CASE c < W_REGISTER ->
               [radio |-> r,
                rx |-> st \o (IF c \in AddrRegs THEN Take(r.areg[c], n)
                              ELSE IF c = STATUS THEN Take(<<StatusByte(r)>>, n)
                              ELSE Take(<<r.reg[c]>>, n))]
          [] c >= W_REGISTER /\ c < 2 * W_REGISTER ->
               LET a == c - W_REGISTER
               IN  [radio |->
                       IF a \in AddrRegs THEN [r EXCEPT !.areg[a] = Tail(cmd)]
                       ELSE IF n = 0 THEN r
                       ELSE IF a = STATUS
                            THEN [r EXCEPT !.reg[STATUS] = AndNot(@, And(cmd[2], IrqFlags))]
                       ELSE IF a = CONFIG
                            THEN [r EXCEPT !.reg[CONFIG] = cmd[2],
                                           !.txActive = @ /\ Bit(cmd[2], 0) = 0 /\ Bit(cmd[2], 1) = 1]
                       ELSE [r EXCEPT !.reg[a] = cmd[2]],
                    rx |-> st \o Zeros(n)]
          [] c = R_RX_PL_WID ->
               [radio |-> r,
                rx |-> st \o Take(IF r.rxFifo = <<>> THEN <<>> ELSE <<r.rxFifo[1].wid>>, n)]
          [] c = R_RX_PAYLOAD ->
               [radio |-> [r EXCEPT !.rxFifo = IF @ = <<>> THEN @ ELSE Tail(@)],
                rx |-> st \o Take(IF r.rxFifo = <<>> THEN <<>> ELSE r.rxFifo[1].data, n)]
          [] c \in {W_TX_PAYLOAD, W_TX_PAYLOAD_NOACK} ->
               [radio |-> IF Len(r.txFifo) < FifoDepth
                          THEN [r EXCEPT !.txFifo = Append(@, [data |-> Tail(cmd),
                                                               noAck |-> c = W_TX_PAYLOAD_NOACK])]
                          ELSE r,
                rx |-> st \o Zeros(n)]
          [] c >= W_ACK_PAYLOAD /\ c <= W_ACK_PAYLOAD + 5 ->
               [radio |-> IF Len(r.txFifo) < FifoDepth
                          THEN [r EXCEPT !.txFifo = Append(@, [data |-> Tail(cmd), noAck |-> FALSE])]
                          ELSE r,
                rx |-> st \o Zeros(n)]
          [] c = FLUSH_TX ->
               [radio |-> [r EXCEPT !.txFifo = <<>>, !.txActive = FALSE], rx |-> st \o Zeros(n)]
          [] c = FLUSH_RX ->
               [radio |-> [r EXCEPT !.rxFifo = <<>>], rx |-> st \o Zeros(n)]
          [] OTHER -> [radio |-> r, rx |-> st \o Zeros(n)]

\* The CE pin as the radio sees it: a rising CE in TX mode with a loaded TX
\* FIFO starts a transmission.
RadioCE(r, level) ==
    IF level /\ Bit(r.reg[CONFIG], 0) = 0 /\ Bit(r.reg[CONFIG], 1) = 1 /\ r.txFifo # <<>>
    THEN [r EXCEPT !.txActive = TRUE]
    ELSE r

\* The radio listens: powered up, primary receiver, CE High.
Listening(r, level) == level /\ Bit(r.reg[CONFIG], 0) = 1 /\ Bit(r.reg[CONFIG], 1) = 1

\* A pin that never reads Low.
IrqLowNever(r) == FALSE

\* The IRQ pin is active low: Low while an interrupt flag is asserted.
IrqLow(r) == Flags(r) # 0

(***************************************************************************)
(* The driver's bus primitives, as the transfers they send.                *)
(***************************************************************************)
\* spiTransfer: one full-duplex exchange; the first byte shifted in is the
\* status, the rest is the response, held in a buffer of its own.
spiTransfer(r, data) ==
    LET out == IF r.miso = "chip" THEN RadioExec(r, data)
               ELSE IF r.miso = "error" THEN [radio |-> r, rx |-> <<>>]
               ELSE [radio |-> r,
                     rx |-> [i \in 1..Len(data) |-> IF r.miso = "high" THEN 255 ELSE 0]]
    IN  [radio |-> out.radio,
         status |-> IF Len(out.rx) > 0 THEN out.rx[1] ELSE 0,
         response |-> IF Len(out.rx) > 0 THEN Tail(out.rx) ELSE <<>>]

writeRegisterCmd(reg, val) == <<Or(W_REGISTER, reg), val>>

readRegisterCmd(reg) == <<reg, NOP>>

writeRegisterNCmd(reg, data) == <<Or(W_REGISTER, reg)>> \o data

\* readRegister's result from the response of its transfer.
readRegisterVal(response) == IF Len(response) > 0 THEN response[1] ELSE 0

clearStatusCmd == writeRegisterCmd(STATUS, Or(RX_DR, Or(TX_DS, MAX_RT)))

flushTXCmd == <<FLUSH_TX>>

\* A FLUSH_RX that is sent as NOP.
flushRXCmdNone == <<NOP>>

flushRXCmd == <<FLUSH_RX>>

(***************************************************************************)
(* Construction (newDriver): the defaults, and the register writes in the  *)
(* order the constructor issues them.                                      *)
(***************************************************************************)
DataRate250kbps == 0
DataRate1mbps == 1
DataRate2mbps == 2
PALevelMin == 0
PALevelLow == 1
PALevelHigh == 2
PALevelMax == 3
CRCLengthDisabled == 0
CRCLength8 == 1
CRCLength16 == 2

\* Defaults that leave EnableAutoAck as the caller set it.
ApplyDefaultsKeepAck(c) ==
    [c EXCEPT
       !.PayloadSize = IF ~c.EnableDynamicPayload /\ (@ = 0 \/ @ > 32) THEN 32 ELSE @,
       !.DataRate = IF @ = 0 THEN DataRate250kbps ELSE @,
       !.PALevel = IF @ = 0 THEN PALevelMax ELSE @,
       !.AutoRetransmitDelay = IF @ = 0 THEN 250 ELSE @,
       !.AutoRetransmitCount = IF @ = 0 THEN 3 ELSE @,
       !.AddressWidth = IF @ = 0 THEN 5 ELSE @,
       !.CRCLength = IF @ = 0 THEN CRCLength16 ELSE @]

ApplyDefaults(c) ==
    [c EXCEPT
       !.PayloadSize = IF ~c.EnableDynamicPayload /\ (@ = 0 \/ @ > 32) THEN 32 ELSE @,
       !.EnableAutoAck = TRUE,
       !.DataRate = IF @ = 0 THEN DataRate250kbps ELSE @,
       !.PALevel = IF @ = 0 THEN PALevelMax ELSE @,
       !.AutoRetransmitDelay = IF @ = 0 THEN 250 ELSE @,
       !.AutoRetransmitCount = IF @ = 0 THEN 3 ELSE @,
       !.AddressWidth = IF @ = 0 THEN 5 ELSE @,
       !.CRCLength = IF @ = 0 THEN CRCLength16 ELSE @]

\* A power-up value that leaves the radio a primary transmitter.
configValueNoRx(c) ==
    Or(PWR_UP,
       CASE c.CRCLength = CRCLength8 -> EN_CRC
         [] c.CRCLength = CRCLength16 -> Or(EN_CRC, CRCO)
         [] OTHER -> 0)

configValue(c) ==
    Or(Or(PWR_UP, PRIM_RX),
       CASE c.CRCLength = CRCLength8 -> EN_CRC
         [] c.CRCLength = CRCLength16 -> Or(EN_CRC, CRCO)
         [] OTHER -> 0)

setupRetr(delay, count) == Or(And(delay \div 250 - 1, 15) * 16, And(count, 15))

rfSetup(rate, level) ==
    Or(CASE rate = DataRate2mbps -> 8
         [] rate = DataRate250kbps -> 32
         [] OTHER -> 0,
       CASE level = PALevelLow -> 2
         [] level = PALevelHigh -> 4
         [] level = PALevelMax -> 6
         [] OTHER -> 0)

newDriverCmds(c) ==
    << writeRegisterCmd(CONFIG, 0),
       clearStatusCmd,
       flushTXCmd,
       flushRXCmd,
       writeRegisterCmd(CONFIG, configValue(c)),
       writeRegisterCmd(RF_CH, c.ChannelNumber),
       writeRegisterCmd(SETUP_AW, c.AddressWidth - 2),
       writeRegisterCmd(SETUP_RETR, setupRetr(c.AutoRetransmitDelay, c.AutoRetransmitCount)),
       writeRegisterCmd(RF_SETUP, rfSetup(c.DataRate, c.PALevel)),
       writeRegisterCmd(EN_AA, IF c.EnableAutoAck THEN Or(ERX_P0, ERX_P1) ELSE 0),
       writeRegisterCmd(EN_RXADDR, Or(ERX_P0, ERX_P1)),
       writeRegisterNCmd(RX_ADDR_P1, c.RxAddr) >>
    \o (IF c.EnableDynamicPayload
        THEN << writeRegisterCmd(FEATURE, Or(EN_DYN_ACK, Or(EN_DPL, EN_ACK_PAY))),
                writeRegisterCmd(DYNPD, Or(ERX_P0, ERX_P1)) >>
        ELSE << writeRegisterCmd(FEATURE, EN_DYN_ACK),
                writeRegisterCmd(DYNPD, 0),
                writeRegisterCmd(RX_PW_P0, c.PayloadSize),
                writeRegisterCmd(RX_PW_P1, c.PayloadSize) >>)

RECURSIVE ApplyCmds(_, _)
ApplyCmds(r, cmds) ==
    IF cmds = <<>> THEN r ELSE ApplyCmds(spiTransfer(r, Head(cmds)).radio, Tail(cmds))

\* The radio as a successful newDriver(c) leaves it.
newDriver(c) == ApplyCmds(ResetRadio, newDriverCmds(ApplyDefaults(c)))

(***************************************************************************)
(* The configurations and arguments the callers draw from.                 *)
(***************************************************************************)
StaticPayloadSize == 2

InputConfigs ==
    {[EnableDynamicPayload |-> d,
      PayloadSize |-> IF d THEN 0 ELSE StaticPayloadSize,
      EnableAutoAck |-> FALSE,
      DataRate |-> 0,
      PALevel |-> 0,
      AutoRetransmitDelay |-> 0,
      AutoRetransmitCount |-> 0,
      AddressWidth |-> 0,
      CRCLength |-> 0,
      ChannelNumber |-> 76,
      RxAddr |-> <<231, 231, 231, 231, 231>>] : d \in BOOLEAN}

Dests == {<<1, 2, 3, 4, 5>>}

\* Transmit's limit on len(p).
payloadLimit(c) == IF ~c.EnableDynamicPayload THEN c.PayloadSize ELSE MAX_PAYLOAD_BYTES

\* Payloads of one byte, of exactly the limit, and one byte over the limit.
TxPayloads(c) == {<<104>>, [i \in 1..payloadLimit(c) |-> 105], Zeros(payloadLimit(c) + 1)}

\* Packets the air delivers: on an enabled pipe, of the length the pipe is
\* set to, or of any length when the pipe has dynamic payload length; wid is
\* what R_RX_PL_WID reports for it, which noise can corrupt (> 32).
AirPackets(r) ==
    IF Bit(r.reg[FEATURE], 2) = 1 /\ Bit(r.reg[DYNPD], 1) = 1
    THEN {[pipe |-> 1, data |-> <<104, 105>>, wid |-> 2],
          [pipe |-> 1, data |-> <<>>, wid |-> 0],
          [pipe |-> 1, data |-> <<119, 111>>, wid |-> 33]}
    ELSE {[pipe |-> 1, data |-> [i \in 1..r.reg[RX_PW_P1] |-> 104], wid |-> r.reg[RX_PW_P1]],
          [pipe |-> 1, data |-> [i \in 1..r.reg[RX_PW_P1] |-> 105], wid |-> r.reg[RX_PW_P1]]}

(***************************************************************************)
(* State.                                                                  *)
(*   config, irq    dev.config after the defaults; dev.irq != nil          *)
(*   mu             the goroutine holding dev.mu, or NoProc                *)
(*   ce             the level of the CE pin                                *)
(*   radio          the radio (registers, FIFOs, transmitter)              *)
(*   watch          the falling-edge subscription on IRQ is active         *)
(*   edgePending    an edge the watcher has seen and not yet handled       *)
(*   irqChan        the number of tokens in dev.irqChan                    *)
(*   cancelled[p]   ctx.Done() of p's current call is closed               *)
(*   pc, stk, loc   where each caller is, the labels its callees return    *)
(*                  to, and its local variables (loc[p].c is the Config    *)
(*                  newDriver was called with)                             *)
(*   xfer[p]        the bus transfers and CE transitions of p's current    *)
(*                  locked section (repeated identical STATUS polls are    *)
(*                  recorded once)                                         *)
(*   hist[p]        what p's current call has seen: bus use, the IRQ pin   *)
(*                  and cancellation at the call, falling edges since,     *)
(*                  flags observed and not yet cleared, a failed transfer  *)
(*   busLast        the caller that last used the bus or moved CE          *)
(***************************************************************************)
VARIABLES config, irq, mu, ce, radio, watch, edgePending, irqChan,
          cancelled, pc, stk, loc, xfer, hist, busLast

vars == <<config, irq, mu, ce, radio, watch, edgePending, irqChan,
          cancelled, pc, stk, loc, xfer, hist, busLast>>

IrqChanCap == 1

IdleLoc ==
    [op |-> "none", dest |-> <<>>, payload |-> <<>>, noAck |-> FALSE, tmp |-> 0,
     status |-> 0, size |-> 0, data |-> <<>>, ok |-> FALSE, err |-> "nil",
     timer |-> "off", deadline |-> 0, c |-> <<>>]

NoHist ==
    [busUsed |-> FALSE, pinLow |-> FALSE, edge |-> FALSE, preCancel |-> FALSE,
     watchAtCall |-> FALSE, stale |-> 0, busErr |-> FALSE, pre |-> <<>>]

Init ==
    /\ config \in {ApplyDefaults(c) : c \in InputConfigs}
    /\ irq \in BOOLEAN
    /\ mu = NoProc
    /\ ce = TRUE
    /\ radio = newDriver(config)
    /\ watch = irq
    /\ edgePending = FALSE
    /\ irqChan = 0
    /\ cancelled = [p \in Procs |-> FALSE]
    /\ pc = [p \in Procs |-> "idle"]
    /\ stk = [p \in Procs |-> <<>>]
    /\ loc = [p \in Procs |-> IdleLoc]
    /\ xfer = [p \in Procs |-> <<>>]
    /\ hist = [p \in Procs |-> NoHist]
    /\ busLast = NoProc

(***************************************************************************)
(* Steps shared by the operations.                                         *)
(***************************************************************************)
IsStatusPoll(cmd) == cmd = readRegisterCmd(STATUS)

LogAdd(l, e) ==
    IF l # <<>> /\ l[Len(l)] = e /\ IsStatusPoll(e.tx) THEN l ELSE Append(l, e)

\* The flags a caller has observed asserted and nobody has cleared since.
Waiting(q) == loc[q].op \in {"ReceiveBlocking", "WaitForInterrupt"}

StaleAfter(q, p, cmd, response) ==
    IF ~Waiting(q) THEN 0
    ELSE IF q = p /\ IsStatusPoll(cmd) THEN And(readRegisterVal(response), IrqFlags)
    ELSE IF cmd[1] = Or(W_REGISTER, STATUS) /\ Len(cmd) > 1 THEN AndNot(hist[q].stale, cmd[2])
    ELSE hist[q].stale

\* A lock that never excludes.
LockNever(holder) == TRUE

\* d.mu.Lock() returns only when no goroutine holds the mutex.
LockFree(holder) == holder = NoProc

\* One spiTransfer by p; fresh says that it opens a new locked section.
Bus(p, cmd, fresh) ==
    \E c \in {cmd} : \E t \in {spiTransfer(radio, c)} :
        LET e == [k |-> "spi", tx |-> c, rx |-> t.response]
        IN  /\ radio' = t.radio
            /\ xfer' = [xfer EXCEPT ![p] = IF fresh THEN <<e>> ELSE LogAdd(@, e)]
            /\ hist' = [q \in Procs |->
                          [hist[q] EXCEPT !.stale = StaleAfter(q, p, c, t.response),
                                          !.busUsed = @ \/ (q = p /\ Waiting(q)),
                                          !.busErr = @ \/ (q = p /\ radio.miso = "error")]]
            /\ busLast' = p
            /\ UNCHANGED <<config, irq, ce, watch, edgePending, irqChan, cancelled>>

\* The response of the transfer that Bus(p, cmd, _) performs in this step.
Resp(cmd) == spiTransfer(radio, cmd).response

\* setCE by p.
SetCE(p, level) ==
    /\ ce' = level
    /\ radio' = RadioCE(radio, level)
    /\ xfer' = [xfer EXCEPT ![p] = Append(@, [k |-> "ce", tx |-> <<IF level THEN 1 ELSE 0>>, rx |-> <<>>])]
    /\ busLast' = p
    /\ UNCHANGED <<config, irq, watch, edgePending, irqChan, cancelled, hist>>

Goto(p, label) == pc' = [pc EXCEPT ![p] = label] /\ UNCHANGED stk

\* Call a function whose first step is entry; it returns to the labels rets.
CallTo(p, entry, rets) ==
    /\ pc' = [pc EXCEPT ![p] = entry]
    /\ stk' = [stk EXCEPT ![p] = rets \o @]

\* Return to the caller's next step.
Return(p) ==
    /\ pc' = [pc EXCEPT ![p] = Head(stk[p])]
    /\ stk' = [stk EXCEPT ![p] = Tail(@)]

\* The locals after a public operation returns: gone when it was the call
\* the goroutine made, kept for the calling operation otherwise.
AfterReturn(p, l) == IF Head(stk[p]) = "idle" THEN IdleLoc ELSE l

\* A public operation returns; what the model remembers of a finished call
\* of the goroutine itself is dropped with its locals.
Leave(p) ==
    LET top == Head(stk[p]) = "idle"
    IN  /\ loc' = [loc EXCEPT ![p] = AfterReturn(p, @)]
        /\ xfer' = [xfer EXCEPT ![p] = IF top THEN <<>> ELSE @]
        /\ hist' = [hist EXCEPT ![p] = IF top THEN NoHist ELSE @]
        /\ cancelled' = [cancelled EXCEPT ![p] = IF top THEN FALSE ELSE @]
        /\ Return(p)

(***************************************************************************)
(* Mode controller: stopListening, startListening, setTargetAddress.       *)
(***************************************************************************)
stopListening(p) ==
    \/ /\ pc[p] = "sl_ce"
       /\ SetCE(p, FALSE)
       /\ Goto(p, "sl_rd")
       /\ UNCHANGED <<mu, loc>>
    \/ /\ pc[p] = "sl_rd"
       /\ Bus(p, readRegisterCmd(CONFIG), FALSE)
       /\ loc' = [loc EXCEPT ![p].tmp = readRegisterVal(Resp(readRegisterCmd(CONFIG)))]
       /\ Goto(p, "sl_wr")
       /\ UNCHANGED mu
    \/ /\ pc[p] = "sl_wr"
       /\ Bus(p, writeRegisterCmd(CONFIG, AndNot(loc[p].tmp, PRIM_RX)), FALSE)
       /\ Return(p)
       /\ UNCHANGED <<mu, loc>>

startListening(p) ==
    \/ /\ pc[p] = "st_ce_lo"
       /\ SetCE(p, FALSE)
       /\ Goto(p, "st_rd")
       /\ UNCHANGED <<mu, loc>>
    \/ /\ pc[p] = "st_rd"
       /\ Bus(p, readRegisterCmd(CONFIG), FALSE)
       /\ loc' = [loc EXCEPT ![p].tmp = readRegisterVal(Resp(readRegisterCmd(CONFIG)))]
       /\ Goto(p, "st_wr")
       /\ UNCHANGED mu
    \/ /\ pc[p] = "st_wr"
       /\ Bus(p, writeRegisterCmd(CONFIG, Or(loc[p].tmp, PRIM_RX)), FALSE)
       /\ Goto(p, "st_ce_hi")
       /\ UNCHANGED <<mu, loc>>
    \/ /\ pc[p] = "st_ce_hi"
       /\ SetCE(p, TRUE)
       /\ Goto(p, "st_clear")
       /\ UNCHANGED <<mu, loc>>
    \/ /\ pc[p] = "st_clear"
       /\ Bus(p, clearStatusCmd, FALSE)
       /\ Goto(p, "st_flush")
       /\ UNCHANGED <<mu, loc>>
    \/ /\ pc[p] = "st_flush"
       /\ Bus(p, flushRXCmd, FALSE)
       /\ Return(p)
       /\ UNCHANGED <<mu, loc>>

\* A mirroring write that goes to pipe 1.
mirrorCmdPipe1(addr) == writeRegisterNCmd(RX_ADDR_P1, addr)

\* The write that mirrors the TX address into pipe 0.
mirrorCmd(addr) == writeRegisterNCmd(RX_ADDR_P0, addr)

setTargetAddress(p) ==
    \/ /\ pc[p] = "ta_ce"
       /\ SetCE(p, FALSE)
       /\ Goto(p, "ta_tx")
       /\ UNCHANGED <<mu, loc>>
    \/ /\ pc[p] = "ta_tx"
       /\ Bus(p, writeRegisterNCmd(TX_ADDR_REG, loc[p].dest), FALSE)
       /\ Goto(p, "ta_rx")
       /\ UNCHANGED <<mu, loc>>
    \/ /\ pc[p] = "ta_rx"
       /\ Bus(p, mirrorCmd(loc[p].dest), FALSE)
       /\ Return(p)
       /\ UNCHANGED <<mu, loc>>

(***************************************************************************)
(* TX path: write, Transmit, TransmitNoAck.                                *)
(***************************************************************************)
\* A payload transfer that uses W_TX_PAYLOAD whatever the flag.
txPayloadCmdAlwaysAck(c, data, noAck) ==
    <<W_TX_PAYLOAD>> \o (IF c.EnableDynamicPayload THEN data ELSE Take(data, c.PayloadSize))

\* A payload transfer that sends the caller's bytes as they are.
txPayloadCmdNoPad(c, data, noAck) ==
    <<IF noAck THEN W_TX_PAYLOAD_NOACK ELSE W_TX_PAYLOAD>> \o data

\* The transfer that loads the TX FIFO.
txPayloadCmd(c, data, noAck) ==
    <<IF noAck THEN W_TX_PAYLOAD_NOACK ELSE W_TX_PAYLOAD>>
    \o (IF c.EnableDynamicPayload THEN data ELSE Take(data, c.PayloadSize))

\* The supervision timer's duration in microseconds.
timeoutDuration(c) == c.AutoRetransmitDelay * c.AutoRetransmitCount + 50000

\* A select without the timeout case.
timeoutNever(timer) == FALSE

\* select: the timeout case is taken once the timer's channel is ready.
timeoutReady(timer) == timer = "fired"

\* A poll that takes every STATUS for the end of the transmission.
pollDoneAlways(status) == TRUE

\* The poll sees the transmission finished.
pollDone(status) == And(status, Or(TX_DS, MAX_RT)) # 0

\* A poll that never recognises MAX_RT.
pollNoMaxRT(status) == FALSE

pollMaxRT(status) == And(status, MAX_RT) # 0

write(p) ==
    \/ /\ pc[p] = "w_payload"
       /\ Bus(p, txPayloadCmd(config, loc[p].payload, loc[p].noAck), FALSE)
       /\ Goto(p, "w_ce_hi")
       /\ UNCHANGED <<mu, loc>>
    \/ /\ pc[p] = "w_ce_hi"
       /\ SetCE(p, TRUE)
       /\ Goto(p, "w_ce_lo")
       /\ UNCHANGED <<mu, loc>>
    \/ /\ pc[p] = "w_ce_lo"
       /\ SetCE(p, FALSE)
       /\ loc' = [loc EXCEPT ![p].timer = "running", ![p].deadline = timeoutDuration(config)]
       /\ Goto(p, "w_poll")
       /\ UNCHANGED mu
    \/ /\ pc[p] = "w_poll"
       /\ timeoutReady(loc[p].timer)
       /\ Bus(p, clearStatusCmd, FALSE)
       /\ Goto(p, "w_to_flush")
       /\ UNCHANGED <<mu, loc>>
    \/ /\ pc[p] = "w_to_flush"
       /\ Bus(p, flushTXCmd, FALSE)
       /\ loc' = [loc EXCEPT ![p].err = "ErrTimeout", ![p].timer = "off"]
       /\ Return(p)
       /\ UNCHANGED mu
    \/ /\ pc[p] = "w_poll"
       /\ ~timeoutReady(loc[p].timer)
       /\ Bus(p, readRegisterCmd(STATUS), FALSE)
       /\ LET status == readRegisterVal(Resp(readRegisterCmd(STATUS)))
          IN  /\ loc' = [loc EXCEPT ![p].status = status]
              /\ Goto(p, IF pollDone(status) THEN "w_clear" ELSE "w_poll")
       /\ UNCHANGED mu
    \/ /\ pc[p] = "w_clear"
       /\ Bus(p, clearStatusCmd, FALSE)
       /\ IF pollMaxRT(loc[p].status)
          THEN Goto(p, "w_flush") /\ UNCHANGED loc
          ELSE Return(p) /\ loc' = [loc EXCEPT ![p].err = "nil", ![p].timer = "off"]
       /\ UNCHANGED mu
    \/ /\ pc[p] = "w_flush"
       /\ Bus(p, flushTXCmd, FALSE)
       /\ loc' = [loc EXCEPT ![p].err = "ErrMaxRetries", ![p].timer = "off"]
       /\ Return(p)
       /\ UNCHANGED mu

\* time.After: the supervision timer of p's write expires.
TimeoutFires(p) ==
    /\ loc[p].timer = "running"
    /\ loc' = [loc EXCEPT ![p].timer = "fired"]
    /\ UNCHANGED <<config, irq, mu, ce, radio, watch, edgePending, irqChan,
                   cancelled, pc, stk, xfer, hist, busLast>>

\* A length check that lets every payload through.
tooLargeNever(c, payload) == FALSE

\* len(p) > limit
tooLarge(c, payload) == Len(payload) > payloadLimit(c)

\* Transmit and TransmitNoAck differ in the noAck argument of write only.
Transmit(p) ==
    \/ /\ pc[p] = "tx_lock"
       /\ LockFree(mu)
       /\ mu' = p
       /\ xfer' = [xfer EXCEPT ![p] = <<>>]
       /\ CallTo(p, "sl_ce", <<"tx_limit">>)
       /\ UNCHANGED <<config, irq, ce, radio, watch, edgePending, irqChan,
                      cancelled, loc, hist, busLast>>
    \/ /\ pc[p] = "tx_limit"
       /\ IF tooLarge(config, loc[p].payload)
          THEN /\ loc' = [loc EXCEPT ![p].err = "ErrPayloadTooLarge"]
               /\ Goto(p, "tx_ret")
          ELSE /\ CallTo(p, "ta_ce", <<"sl_ce", "w_payload", "st_ce_lo", "tx_ret">>)
               /\ UNCHANGED loc
       /\ UNCHANGED <<config, irq, mu, ce, radio, watch, edgePending, irqChan,
                      cancelled, xfer, hist, busLast>>
    \/ /\ pc[p] = "tx_ret"
       /\ mu' = NoProc
       /\ Leave(p)
       /\ UNCHANGED <<config, irq, ce, radio, watch, edgePending, irqChan, busLast>>

CallTransmit(p) ==
    /\ pc[p] = "idle"
    /\ \E dest \in Dests, payload \in TxPayloads(config), noAck \in BOOLEAN :
          loc' = [loc EXCEPT ![p] = [IdleLoc EXCEPT !.op = IF noAck THEN "TransmitNoAck" ELSE "Transmit",
                                                    !.dest = dest, !.payload = payload,
                                                    !.noAck = noAck]]
    /\ pc' = [pc EXCEPT ![p] = "tx_lock"]
    /\ stk' = [stk EXCEPT ![p] = <<"idle">>]
    /\ xfer' = [xfer EXCEPT ![p] = <<>>]
    /\ hist' = [hist EXCEPT ![p] = NoHist]
    /\ UNCHANGED <<config, irq, mu, ce, radio, watch, edgePending, irqChan,
                   cancelled, busLast>>

(***************************************************************************)
(* The air and the IRQ line.                                               *)
(***************************************************************************)
\* The radio asserts the flag f; IRQ falls when no flag was asserted before.
SetFlag(r, f) == [r EXCEPT !.reg[STATUS] = Or(@, f)]

FallingEdge(r) == ~IrqLow(r)

Raise(r2) ==
    /\ radio' = r2
    /\ edgePending' = (edgePending \/ (watch /\ FallingEdge(radio)))
    /\ hist' = [q \in Procs |-> [hist[q] EXCEPT !.edge = @ \/ (FallingEdge(radio) /\ pc[q] \in {"wfi_select", "wfi_rd"})]]
    /\ UNCHANGED <<config, irq, mu, ce, watch, irqChan, cancelled, pc, stk,
                   loc, xfer, busLast>>

PacketArrives ==
    /\ Listening(radio, ce)
    /\ Len(radio.rxFifo) < MaxRxQueued
    /\ Len(radio.rxFifo) < FifoDepth
    /\ \E pkt \in AirPackets(radio) :
          Raise(SetFlag([radio EXCEPT !.rxFifo = Append(@, pkt)], RX_DR))

\* The transmission ends with the packet sent (and acknowledged).
TxDone ==
    /\ radio.txActive
    /\ Raise(SetFlag([radio EXCEPT !.txFifo = Tail(@), !.txActive = FALSE], TX_DS))

\* The transmission ends with no acknowledgement after the last retry.
TxFail ==
    /\ radio.txActive
    /\ ~radio.txFifo[1].noAck
    /\ Raise(SetFlag([radio EXCEPT !.txActive = FALSE], MAX_RT))

\* A handler that sends whatever the queue holds.
handlerPushAlways(n) == n + 1

\* The handler given to irq.Watch: a send that never blocks.
handlerPush(n) == IF n < IrqChanCap THEN n + 1 ELSE n

IrqHandler ==
    /\ edgePending
    /\ edgePending' = FALSE
    /\ irqChan' = handlerPush(irqChan)
    /\ UNCHANGED <<config, irq, mu, ce, radio, watch, cancelled, pc, stk, loc, xfer, hist,
                   busLast>>

(***************************************************************************)
(* RX path: available, getDynamicPayloadSize, readDynamic,                 *)
(* readFixedPayload, Receive.                                              *)
(***************************************************************************)
\* A check that always finds a packet.
availableAlways(status) == TRUE

\* available, on the STATUS byte it read.
available(status) == And(status \div 2, 7) # 7

\* A payload transfer one byte short.
rxPayloadShortCmd(size) == <<R_RX_PAYLOAD>> \o [i \in 1..size - 1 |-> NOP]

\* The R_RX_PAYLOAD transfer for size payload bytes.
rxPayloadCmd(size) == <<R_RX_PAYLOAD>> \o [i \in 1..size |-> NOP]

\* getDynamicPayloadSize: a width over 32 is flushed and reported as 0.
widthInvalid(w) == w > 32

readDynamic(p) ==
    \/ /\ pc[p] = "rd_avail"
       /\ Bus(p, readRegisterCmd(STATUS), FALSE)
       /\ LET status == readRegisterVal(Resp(readRegisterCmd(STATUS)))
          IN  IF available(status)
              THEN /\ loc' = [loc EXCEPT ![p].status = status]
                   /\ Goto(p, "rd_wid")
              ELSE /\ loc' = [loc EXCEPT ![p].status = status, ![p].ok = FALSE, ![p].data = <<>>]
                   /\ Goto(p, "rx_ret")
       /\ UNCHANGED mu
    \/ /\ pc[p] = "rd_wid"
       /\ Bus(p, <<R_RX_PL_WID, NOP>>, FALSE)
       /\ LET w == readRegisterVal(Resp(<<R_RX_PL_WID, NOP>>))
          IN  IF widthInvalid(w)
              THEN /\ loc' = [loc EXCEPT ![p].size = 0]
                   /\ Goto(p, "rd_wid_flush")
              ELSE IF w = 0
              THEN /\ loc' = [loc EXCEPT ![p].size = 0, ![p].ok = FALSE, ![p].data = <<>>]
                   /\ Goto(p, "rx_ret")
              ELSE /\ loc' = [loc EXCEPT ![p].size = w]
                   /\ Goto(p, "rd_payload")
       /\ UNCHANGED mu
    \/ /\ pc[p] = "rd_wid_flush"
       /\ Bus(p, flushRXCmd, FALSE)
       /\ loc' = [loc EXCEPT ![p].ok = FALSE, ![p].data = <<>>]
       /\ Goto(p, "rx_ret")
       /\ UNCHANGED mu
    \/ /\ pc[p] = "rd_payload"
       /\ Bus(p, rxPayloadCmd(loc[p].size), FALSE)
       /\ loc' = [loc EXCEPT ![p].data = Resp(rxPayloadCmd(loc[p].size))]
       /\ Goto(p, "rd_clear")
       /\ UNCHANGED mu
    \/ /\ pc[p] = "rd_clear"
       /\ Bus(p, clearStatusCmd, FALSE)
       /\ loc' = [loc EXCEPT ![p].ok = TRUE]
       /\ Goto(p, "rx_ret")
       /\ UNCHANGED mu

readFixedPayload(p) ==
    \/ /\ pc[p] = "rf_avail"
       /\ Bus(p, readRegisterCmd(STATUS), FALSE)
       /\ LET status == readRegisterVal(Resp(readRegisterCmd(STATUS)))
          IN  IF available(status)
              THEN /\ loc' = [loc EXCEPT ![p].status = status, ![p].size = config.PayloadSize]
                   /\ Goto(p, "rf_payload")
              ELSE /\ loc' = [loc EXCEPT ![p].status = status, ![p].ok = FALSE, ![p].data = <<>>]
                   /\ Goto(p, "rx_ret")
       /\ UNCHANGED mu
    \/ /\ pc[p] = "rf_payload"
       /\ Bus(p, rxPayloadCmd(loc[p].size), FALSE)
       /\ loc' = [loc EXCEPT ![p].data = Resp(rxPayloadCmd(loc[p].size))]
       /\ Goto(p, "rf_clear")
       /\ UNCHANGED mu
    \/ /\ pc[p] = "rf_clear"
       /\ Bus(p, clearStatusCmd, FALSE)
       /\ loc' = [loc EXCEPT ![p].ok = TRUE]
       /\ Goto(p, "rx_ret")
       /\ UNCHANGED mu

Receive(p) ==
    \/ /\ pc[p] = "rx_lock"
       /\ LockFree(mu)
       /\ mu' = p
       /\ xfer' = [xfer EXCEPT ![p] = <<>>]
       /\ Goto(p, IF config.EnableDynamicPayload THEN "rd_avail" ELSE "rf_avail")
       /\ UNCHANGED <<config, irq, ce, radio, watch, edgePending, irqChan,
                      cancelled, loc, hist, busLast>>
    \/ /\ pc[p] = "rx_ret"
       /\ mu' = NoProc
       /\ Leave(p)
       /\ UNCHANGED <<config, irq, ce, radio, watch, edgePending, irqChan, busLast>>

CallReceive(p) ==
    /\ pc[p] = "idle"
    /\ loc' = [loc EXCEPT ![p] = [IdleLoc EXCEPT !.op = "Receive"]]
    /\ pc' = [pc EXCEPT ![p] = "rx_lock"]
    /\ stk' = [stk EXCEPT ![p] = <<"idle">>]
    /\ xfer' = [xfer EXCEPT ![p] = <<>>]
    /\ hist' = [hist EXCEPT ![p] = NoHist]
    /\ UNCHANGED <<config, irq, mu, ce, radio, watch, edgePending, irqChan,
                   cancelled, busLast>>

(***************************************************************************)
(* Interrupt waiter: WaitForInterrupt, ReceiveBlocking, clearInterrupts.   *)
(***************************************************************************)
\* A context that is never seen done.
ctxNever(c) == FALSE

\* A blocking select without the ctx.Done() case.
waitNever(c) == FALSE

\* ReceiveBlocking's check at the top of its loop: ctx.Done() is closed.
ctxDone(c) == c

\* case <-ctx.Done() of a blocking select is ready.
waitDone(c) == c

\* A select that never takes the token.
tokenReadyNever(n) == FALSE

\* case <-d.irqChan is ready.
tokenReady(n) == n > 0

WaitForInterrupt(p) ==
    \/ /\ pc[p] = "wfi_entry"
       /\ ~irq
       /\ loc' = [loc EXCEPT ![p].err = "ErrIrqNotConfigured", ![p].status = 0]
       /\ Goto(p, "wfi_ret")
       /\ UNCHANGED <<config, irq, mu, ce, radio, watch, edgePending, irqChan,
                      cancelled, xfer, hist, busLast>>
    \/ /\ pc[p] = "wfi_entry"
       /\ irq
       /\ hist' = [hist EXCEPT ![p].pinLow = IrqLow(radio), ![p].edge = FALSE]
       /\ Goto(p, IF IrqLow(radio) THEN "wfi_rd" ELSE "wfi_select")
       /\ UNCHANGED <<config, irq, mu, ce, radio, watch, edgePending, irqChan,
                      cancelled, loc, xfer, busLast>>
    \/ /\ pc[p] = "wfi_select"
       /\ tokenReady(irqChan)
       /\ irqChan' = irqChan - 1
       /\ Goto(p, "wfi_rd")
       /\ UNCHANGED <<config, irq, mu, ce, radio, watch, edgePending,
                      cancelled, loc, xfer, hist, busLast>>
    \/ /\ pc[p] = "wfi_select"
       /\ waitDone(cancelled[p])
       /\ loc' = [loc EXCEPT ![p].err = "Cancelled", ![p].status = 0]
       /\ Goto(p, "wfi_ret")
       /\ UNCHANGED <<config, irq, mu, ce, radio, watch, edgePending, irqChan,
                      cancelled, xfer, hist, busLast>>
    \/ /\ pc[p] = "wfi_rd"
       /\ LockFree(mu)
       /\ Bus(p, readRegisterCmd(STATUS), TRUE)
       /\ loc' = [loc EXCEPT ![p].status = readRegisterVal(Resp(readRegisterCmd(STATUS))),
                             ![p].err = "nil"]
       /\ Goto(p, "wfi_ret")
       /\ UNCHANGED mu
    \/ /\ pc[p] = "wfi_ret"
       /\ Leave(p)
       /\ UNCHANGED <<config, irq, mu, ce, radio, watch, edgePending, irqChan, busLast>>

CallWaitForInterrupt(p) ==
    /\ pc[p] = "idle"
    /\ \E c \in BOOLEAN :
          /\ cancelled' = [cancelled EXCEPT ![p] = c]
          /\ hist' = [hist EXCEPT ![p] = [NoHist EXCEPT !.preCancel = c, !.watchAtCall = watch]]
    /\ loc' = [loc EXCEPT ![p] = [IdleLoc EXCEPT !.op = "WaitForInterrupt"]]
    /\ pc' = [pc EXCEPT ![p] = "wfi_entry"]
    /\ stk' = [stk EXCEPT ![p] = <<"idle">>]
    /\ xfer' = [xfer EXCEPT ![p] = <<>>]
    /\ UNCHANGED <<config, irq, mu, ce, radio, watch, edgePending, irqChan,
                   busLast>>

\* The wake was for received data.
wokeForData(status) == And(status, RX_DR) # 0

ReceiveBlocking(p) ==
    \/ /\ pc[p] = "rb_top"
       /\ IF ctxDone(cancelled[p])
          THEN /\ loc' = [loc EXCEPT ![p].err = "Cancelled", ![p].ok = FALSE, ![p].data = <<>>]
               /\ Goto(p, "rb_ret")
          ELSE /\ CallTo(p, "rx_lock", <<"rb_after_rx">>)
               /\ UNCHANGED loc
       /\ UNCHANGED <<config, irq, mu, ce, radio, watch, edgePending, irqChan,
                      cancelled, xfer, hist, busLast>>
    \/ /\ pc[p] = "rb_after_rx"
       /\ IF loc[p].ok
          THEN /\ loc' = [loc EXCEPT ![p].err = "nil"]
               /\ Goto(p, "rb_ret")
          ELSE IF irq
          THEN /\ CallTo(p, "wfi_entry", <<"rb_after_wfi">>)
               /\ UNCHANGED loc
          ELSE /\ Goto(p, "rb_sleep")
               /\ UNCHANGED loc
       /\ UNCHANGED <<config, irq, mu, ce, radio, watch, edgePending, irqChan,
                      cancelled, xfer, hist, busLast>>
    \/ /\ pc[p] = "rb_after_wfi"
       /\ IF loc[p].err # "nil"
          THEN Goto(p, "rb_ret")
          ELSE IF wokeForData(loc[p].status)
          THEN Goto(p, "rb_top")
          ELSE Goto(p, "ci_wr")
       /\ UNCHANGED <<config, irq, mu, ce, radio, watch, edgePending, irqChan,
                      cancelled, loc, xfer, hist, busLast>>
    \/ /\ pc[p] = "rb_sleep"
       /\ Goto(p, "rb_top")
       /\ UNCHANGED <<config, irq, mu, ce, radio, watch, edgePending, irqChan,
                      cancelled, loc, xfer, hist, busLast>>
    \/ /\ pc[p] = "rb_sleep"
       /\ waitDone(cancelled[p])
       /\ loc' = [loc EXCEPT ![p].err = "Cancelled", ![p].ok = FALSE, ![p].data = <<>>]
       /\ Goto(p, "rb_ret")
       /\ UNCHANGED <<config, irq, mu, ce, radio, watch, edgePending, irqChan,
                      cancelled, xfer, hist, busLast>>
    \/ /\ pc[p] = "rb_ret"
       /\ Leave(p)
       /\ UNCHANGED <<config, irq, mu, ce, radio, watch, edgePending, irqChan, busLast>>

clearInterrupts(p) ==
    /\ pc[p] = "ci_wr"
    /\ LockFree(mu)
    /\ Bus(p, writeRegisterCmd(STATUS, loc[p].status), TRUE)
    /\ Goto(p, "rb_top")
    /\ UNCHANGED <<mu, loc>>

CallReceiveBlocking(p) ==
    /\ pc[p] = "idle"
    /\ \E c \in BOOLEAN :
          /\ cancelled' = [cancelled EXCEPT ![p] = c]
          /\ hist' = [hist EXCEPT ![p] = [NoHist EXCEPT !.preCancel = c, !.watchAtCall = watch]]
    /\ loc' = [loc EXCEPT ![p] = [IdleLoc EXCEPT !.op = "ReceiveBlocking"]]
    /\ pc' = [pc EXCEPT ![p] = "rb_top"]
    /\ stk' = [stk EXCEPT ![p] = <<"idle">>]
    /\ xfer' = [xfer EXCEPT ![p] = <<>>]
    /\ UNCHANGED <<config, irq, mu, ce, radio, watch, edgePending, irqChan,
                   busLast>>

\* The caller cancels the context of p's blocking call.
Cancel(p) ==
    /\ loc[p].op \in {"ReceiveBlocking", "WaitForInterrupt"}
    /\ ~cancelled[p]
    /\ cancelled' = [cancelled EXCEPT ![p] = TRUE]
    /\ UNCHANGED <<config, irq, mu, ce, radio, watch, edgePending, irqChan,
                   pc, stk, loc, xfer, hist, busLast>>

(***************************************************************************)
(* Ping: one byte sent to the address, and whether it was acknowledged.    *)
(***************************************************************************)
\* A probe that reports success whatever write returned.
pingAlways(err) == TRUE

\* err == nil
pingResult(err) == err = "nil"

Ping(p) ==
    \/ /\ pc[p] = "pg_lock"
       /\ LockFree(mu)
       /\ mu' = p
       /\ xfer' = [xfer EXCEPT ![p] = <<>>]
       /\ CallTo(p, "ta_ce", <<"sl_ce", "w_payload", "pg_after">>)
       /\ UNCHANGED <<config, irq, ce, radio, watch, edgePending, irqChan,
                      cancelled, loc, hist, busLast>>
    \/ /\ pc[p] = "pg_after"
       /\ loc' = [loc EXCEPT ![p].ok = pingResult(loc[p].err), ![p].err = "nil"]
       /\ Goto(p, "pg_ret")
       /\ UNCHANGED <<config, irq, mu, ce, radio, watch, edgePending, irqChan,
                      cancelled, xfer, hist, busLast>>
    \/ /\ pc[p] = "pg_ret"
       /\ mu' = NoProc
       /\ Leave(p)
       /\ UNCHANGED <<config, irq, ce, radio, watch, edgePending, irqChan, busLast>>

CallPing(p) ==
    /\ pc[p] = "idle"
    /\ \E addr \in Dests :
          loc' = [loc EXCEPT ![p] = [IdleLoc EXCEPT !.op = "Ping", !.dest = addr,
                                                    !.payload = <<0>>, !.noAck = FALSE]]
    /\ pc' = [pc EXCEPT ![p] = "pg_lock"]
    /\ stk' = [stk EXCEPT ![p] = <<"idle">>]
    /\ xfer' = [xfer EXCEPT ![p] = <<>>]
    /\ hist' = [hist EXCEPT ![p] = NoHist]
    /\ UNCHANGED <<config, irq, mu, ce, radio, watch, edgePending, irqChan,
                   cancelled, busLast>>

(***************************************************************************)
(* WriteAckPayload: the checks, made before the mutex is taken, and the    *)
(* transfer.  loc[p].tmp is pipeID.                                        *)
(***************************************************************************)
AckPipes == {-1, 0, 5, 6}

AckPayloads == {<<>>, <<7>>, [i \in 1..MAX_PAYLOAD_BYTES |-> 9], Zeros(MAX_PAYLOAD_BYTES + 1)}

\* The error of WriteAckPayload's checks, "nil" when they pass.
ackPayloadCheck(c, pipeID, data) ==
    IF ~c.EnableAutoAck THEN "ErrAutoAck"
    ELSE IF ~c.EnableDynamicPayload THEN "ErrDynamicPayload"
    ELSE IF pipeID < 0 \/ pipeID > 5 THEN "ErrPipe"
    ELSE IF Len(data) > MAX_PAYLOAD_BYTES THEN "ErrPayloadTooLarge"
    ELSE "nil"

ackPayloadCmd(pipeID, data) == <<Or(W_ACK_PAYLOAD, pipeID)>> \o data

WriteAckPayload(p) ==
    \/ /\ pc[p] = "ap_check"
       /\ loc' = [loc EXCEPT ![p].err = ackPayloadCheck(config, loc[p].tmp, loc[p].payload)]
       /\ Goto(p, IF ackPayloadCheck(config, loc[p].tmp, loc[p].payload) = "nil"
                  THEN "ap_lock" ELSE "ap_ret")
       /\ UNCHANGED <<config, irq, mu, ce, radio, watch, edgePending, irqChan,
                      cancelled, xfer, hist, busLast>>
    \/ /\ pc[p] = "ap_lock"
       /\ LockFree(mu)
       /\ mu' = p
       /\ Goto(p, "ap_xfer")
       /\ UNCHANGED <<config, irq, ce, radio, watch, edgePending, irqChan,
                      cancelled, loc, xfer, hist, busLast>>
    \/ /\ pc[p] = "ap_xfer"
       /\ Bus(p, ackPayloadCmd(loc[p].tmp, loc[p].payload), TRUE)
       /\ mu' = NoProc
       /\ Goto(p, "ap_ret")
       /\ UNCHANGED loc
    \/ /\ pc[p] = "ap_ret"
       /\ Leave(p)
       /\ UNCHANGED <<config, irq, mu, ce, radio, watch, edgePending, irqChan, busLast>>

CallWriteAckPayload(p) ==
    /\ pc[p] = "idle"
    /\ \E pipeID \in AckPipes, data \in AckPayloads :
          loc' = [loc EXCEPT ![p] = [IdleLoc EXCEPT !.op = "WriteAckPayload",
                                                    !.tmp = pipeID, !.payload = data]]
    /\ pc' = [pc EXCEPT ![p] = "ap_check"]
    /\ stk' = [stk EXCEPT ![p] = <<"idle">>]
    /\ xfer' = [xfer EXCEPT ![p] = <<>>]
    /\ hist' = [hist EXCEPT ![p] = NoHist]
    /\ UNCHANGED <<config, irq, mu, ce, radio, watch, edgePending, irqChan,
                   cancelled, busLast>>

(***************************************************************************)
(* A broken bus: from some moment on every conn.Tx fails.                  *)
(***************************************************************************)
BusBreaks ==
    /\ radio.miso = "chip"
    /\ radio' = [radio EXCEPT !.miso = "error"]
    /\ UNCHANGED <<config, irq, mu, ce, watch, edgePending, irqChan, cancelled,
                   pc, stk, loc, xfer, hist, busLast>>

\* What a call starts from: the radio and the configuration cache as they
\* are when the call is made.
AtCall == [radio |-> radio, config |-> config]

(***************************************************************************)
(* OpenRxPipe and CloseRxPipe.  loc[p].tmp is pipeID, loc[p].dest the      *)
(* address, loc[p].status the register value just read.                    *)
(***************************************************************************)
PipeIDs == {-1, 0, 2, 6}

PipeAddrs == {<<>>, <<204>>, <<9, 8, 7>>, <<5, 4, 3, 2, 1>>}

\* 1 << pipeID
PipeBit(pipeID) == 2 ^ pipeID

\* A check that lets every pipe ID pass.
pipeInvalidNever(pipeID) == FALSE

pipeInvalid(pipeID) == pipeID < 0 \/ pipeID > 5

\* OpenRxPipe's check of the address: the full width for pipes 0 and 1,
\* one byte for the others.
addressInvalid(c, pipeID, address) ==
    IF pipeID <= 1 THEN Len(address) < c.AddressWidth ELSE Len(address) = 0

\* The address write for pipes 2..5 with the whole slice instead of its LSB.
pipeAddrCmdWhole(c, pipeID, address) == writeRegisterNCmd(RX_ADDR_P0 + pipeID, address)

\* The address write: address[:AddressWidth] for pipes 0 and 1, address[0]
\* for the others.
pipeAddrCmd(c, pipeID, address) ==
    IF pipeID <= 1
    THEN writeRegisterNCmd(RX_ADDR_P0 + pipeID, SubSeq(address, 1, c.AddressWidth))
    ELSE writeRegisterCmd(RX_ADDR_P0 + pipeID, address[1])

\* A bit clear that clears the whole register.
clearBitAll(val, pipeID) == 0

\* val &^ (1 << pipeID)
clearBit(val, pipeID) == AndNot(val, PipeBit(pipeID))

\* val | (1 << pipeID)
setBit(val, pipeID) == Or(val, PipeBit(pipeID))

\* One readRegister(reg) by p, the value kept for the write that follows.
ReadStep(p, reg, next, fresh) ==
    /\ Bus(p, readRegisterCmd(reg), fresh)
    /\ loc' = [loc EXCEPT ![p].status = readRegisterVal(Resp(readRegisterCmd(reg)))]
    /\ Goto(p, next)
    /\ UNCHANGED mu

\* The return of an operation that fails before it takes the mutex or right
\* after: no transfer is made.
Fail(p, e, holder) ==
    /\ loc' = [loc EXCEPT ![p].err = e]
    /\ mu' = holder
    /\ UNCHANGED <<config, irq, ce, radio, watch, edgePending, irqChan,
                   cancelled, xfer, hist, busLast>>

\* A check that passes: the operation goes on to d.mu.Lock().
Pass(p, next) ==
    /\ Goto(p, next)
    /\ UNCHANGED <<config, irq, mu, ce, radio, watch, edgePending, irqChan,
                   cancelled, loc, xfer, hist, busLast>>

\* An operation that goes on without taking the mutex.
LockSkip(p, next) == Pass(p, next)

\* d.mu.Lock()
Lock(p, next) ==
    /\ LockFree(mu)
    /\ mu' = p
    /\ Goto(p, next)
    /\ UNCHANGED <<config, irq, ce, radio, watch, edgePending, irqChan,
                   cancelled, loc, xfer, hist, busLast>>

OpenRxPipe(p) ==
    \/ /\ pc[p] = "op_check"
       /\ pipeInvalid(loc[p].tmp)
       /\ Fail(p, "ErrPipe", mu)
       /\ Goto(p, "op_ret")
    \/ /\ pc[p] = "op_check"
       /\ ~pipeInvalid(loc[p].tmp)
       /\ Pass(p, "op_lock")
    \/ /\ pc[p] = "op_lock"
       /\ Lock(p, "op_addr")
    \/ /\ pc[p] = "op_addr"
       /\ addressInvalid(config, loc[p].tmp, loc[p].dest)
       /\ Fail(p, "ErrAddress", NoProc)
       /\ Goto(p, "op_ret")
    \/ /\ pc[p] = "op_addr"
       /\ ~addressInvalid(config, loc[p].tmp, loc[p].dest)
       /\ Bus(p, pipeAddrCmd(config, loc[p].tmp, loc[p].dest), TRUE)
       /\ Goto(p, "op_dyn_rd")
       /\ UNCHANGED <<mu, loc>>
    \/ /\ pc[p] = "op_dyn_rd"
       /\ ReadStep(p, DYNPD, "op_dyn_wr", FALSE)
    \/ /\ pc[p] = "op_dyn_wr"
       /\ Bus(p, writeRegisterCmd(DYNPD, IF config.EnableDynamicPayload
                                         THEN setBit(loc[p].status, loc[p].tmp)
                                         ELSE clearBit(loc[p].status, loc[p].tmp)), FALSE)
       /\ Goto(p, IF config.EnableDynamicPayload THEN "op_feat_chk" ELSE "op_pw")
       /\ UNCHANGED <<mu, loc>>
    \/ /\ pc[p] = "op_feat_chk"
       /\ Bus(p, readRegisterCmd(FEATURE), FALSE)
       /\ Goto(p, IF And(readRegisterVal(Resp(readRegisterCmd(FEATURE))), EN_DPL) = 0
                  THEN "op_feat_rd" ELSE "op_en_rd")
       /\ UNCHANGED <<mu, loc>>
    \/ /\ pc[p] = "op_feat_rd"
       /\ ReadStep(p, FEATURE, "op_feat_wr", FALSE)
    \/ /\ pc[p] = "op_feat_wr"
       /\ Bus(p, writeRegisterCmd(FEATURE, Or(loc[p].status, EN_DPL)), FALSE)
       /\ Goto(p, "op_en_rd")
       /\ UNCHANGED <<mu, loc>>
    \/ /\ pc[p] = "op_pw"
       /\ Bus(p, writeRegisterCmd(RX_PW_P0 + loc[p].tmp, config.PayloadSize), FALSE)
       /\ Goto(p, "op_en_rd")
       /\ UNCHANGED <<mu, loc>>
    \/ /\ pc[p] = "op_en_rd"
       /\ ReadStep(p, EN_RXADDR, "op_en_wr", FALSE)
    \/ /\ pc[p] = "op_en_wr"
       /\ Bus(p, writeRegisterCmd(EN_RXADDR, setBit(loc[p].status, loc[p].tmp)), FALSE)
       /\ Goto(p, "op_aa_rd")
       /\ UNCHANGED <<mu, loc>>
    \/ /\ pc[p] = "op_aa_rd"
       /\ ReadStep(p, EN_AA, "op_aa_wr", FALSE)
    \/ /\ pc[p] = "op_aa_wr"
       /\ Bus(p, writeRegisterCmd(EN_AA, IF config.EnableAutoAck
                                         THEN setBit(loc[p].status, loc[p].tmp)
                                         ELSE clearBit(loc[p].status, loc[p].tmp)), FALSE)
       /\ mu' = NoProc
       /\ Goto(p, "op_ret")
       /\ UNCHANGED loc
    \/ /\ pc[p] = "op_ret"
       /\ Leave(p)
       /\ UNCHANGED <<config, irq, mu, ce, radio, watch, edgePending, irqChan, busLast>>

CloseRxPipe(p) ==
    \/ /\ pc[p] = "cp_check"
       /\ pipeInvalid(loc[p].tmp)
       /\ Fail(p, "ErrPipe", mu)
       /\ Goto(p, "cp_ret")
    \/ /\ pc[p] = "cp_check"
       /\ ~pipeInvalid(loc[p].tmp)
       /\ Pass(p, "cp_lock")
    \/ /\ pc[p] = "cp_lock"
       /\ Lock(p, "cp_en_rd")
    \/ /\ pc[p] = "cp_en_rd"
       /\ ReadStep(p, EN_RXADDR, "cp_en_wr", TRUE)
    \/ /\ pc[p] = "cp_en_wr"
       /\ Bus(p, writeRegisterCmd(EN_RXADDR, clearBit(loc[p].status, loc[p].tmp)), FALSE)
       /\ Goto(p, "cp_aa_rd")
       /\ UNCHANGED <<mu, loc>>
    \/ /\ pc[p] = "cp_aa_rd"
       /\ ReadStep(p, EN_AA, "cp_aa_wr", FALSE)
    \/ /\ pc[p] = "cp_aa_wr"
       /\ Bus(p, writeRegisterCmd(EN_AA, clearBit(loc[p].status, loc[p].tmp)), FALSE)
       /\ mu' = NoProc
       /\ Goto(p, "cp_ret")
       /\ UNCHANGED loc
    \/ /\ pc[p] = "cp_ret"
       /\ Leave(p)
       /\ UNCHANGED <<config, irq, mu, ce, radio, watch, edgePending, irqChan, busLast>>

\* A call of a configuration operation: its arguments in l, its first step.
Call(p, l, entry) ==
    /\ pc[p] = "idle"
    /\ loc' = [loc EXCEPT ![p] = l]
    /\ pc' = [pc EXCEPT ![p] = entry]
    /\ stk' = [stk EXCEPT ![p] = <<"idle">>]
    /\ xfer' = [xfer EXCEPT ![p] = <<>>]
    /\ hist' = [hist EXCEPT ![p] = [NoHist EXCEPT !.pre = AtCall]]
    /\ UNCHANGED <<config, irq, mu, ce, radio, watch, edgePending, irqChan,
                   cancelled, busLast>>

CallOpenRxPipe(p) ==
    \E pipeID \in PipeIDs, address \in PipeAddrs :
        Call(p, [IdleLoc EXCEPT !.op = "OpenRxPipe", !.tmp = pipeID, !.dest = address],
             "op_check")

CallCloseRxPipe(p) ==
    \E pipeID \in PipeIDs :
        Call(p, [IdleLoc EXCEPT !.op = "CloseRxPipe", !.tmp = pipeID], "cp_check")

(***************************************************************************)
(* The dynamic setters.  loc[p].tmp is the argument (channel, rate, level, *)
(* delay, width), loc[p].size the retransmit count.                        *)
(***************************************************************************)
\* An encoding that drops the data rate bits.
updateRFSetupNoRate(c) ==
    CASE c.PALevel = PALevelLow -> 2
      [] c.PALevel = PALevelHigh -> 4
      [] c.PALevel = PALevelMax -> 6
      [] OTHER -> 0

\* The byte updateRFSetup writes to RF_SETUP for the cached configuration c.
updateRFSetup(c) ==
    Or(CASE c.DataRate = DataRate1mbps -> 0
         [] c.DataRate = DataRate2mbps -> 8
         [] c.DataRate = DataRate250kbps -> 32
         [] OTHER -> 0,
       CASE c.PALevel = PALevelMin -> 0
         [] c.PALevel = PALevelLow -> 2
         [] c.PALevel = PALevelHigh -> 4
         [] c.PALevel = PALevelMax -> 6
         [] OTHER -> 0)

setChannelInvalid(channel) == channel > 124

setWidthInvalid(width) == width < 3 \/ width > 5

setRetransmitInvalid(delay, count) ==
    (delay < 250 \/ delay > 4000 \/ delay % 250 # 0) \/ count > 15

\* An assignment to d.config by p; the mutex ends held by holder.
SetConfig(p, c, holder, next) ==
    /\ config' = c
    /\ mu' = holder
    /\ Goto(p, next)
    /\ UNCHANGED <<irq, ce, radio, watch, edgePending, irqChan, cancelled,
                   loc, xfer, hist, busLast>>

\* One writeRegister by p, the first transfer of its locked section.
WriteStep(p, reg, val, next) ==
    /\ Bus(p, writeRegisterCmd(reg, val), TRUE)
    /\ Goto(p, next)
    /\ UNCHANGED <<mu, loc>>

SetChannel(p) ==
    \/ /\ pc[p] = "sc_check"
       /\ setChannelInvalid(loc[p].tmp)
       /\ Fail(p, "ErrChannel", mu)
       /\ Goto(p, "set_ret")
    \/ /\ pc[p] = "sc_check"
       /\ ~setChannelInvalid(loc[p].tmp)
       /\ Pass(p, "sc_lock")
    \/ /\ pc[p] = "sc_lock"
       /\ Lock(p, "sc_wr")
    \/ /\ pc[p] = "sc_wr"
       /\ WriteStep(p, RF_CH, loc[p].tmp, "sc_cache")
    \/ /\ pc[p] = "sc_cache"
       /\ SetConfig(p, [config EXCEPT !.ChannelNumber = loc[p].tmp], NoProc, "set_ret")

\* updateRFSetup, called with the lock held; its caller returns its result.
updateRFSetupStep(p) ==
    /\ pc[p] = "ur_wr"
    /\ Bus(p, writeRegisterCmd(RF_SETUP, updateRFSetup(config)), TRUE)
    /\ mu' = NoProc
    /\ Goto(p, "set_ret")
    /\ UNCHANGED loc

SetDataRate(p) ==
    \/ /\ pc[p] = "sd_lock"
       /\ Lock(p, "sd_cache")
    \/ /\ pc[p] = "sd_cache"
       /\ SetConfig(p, [config EXCEPT !.DataRate = loc[p].tmp], mu, "ur_wr")

SetPALevel(p) ==
    \/ /\ pc[p] = "sp_lock"
       /\ Lock(p, "sp_cache")
    \/ /\ pc[p] = "sp_cache"
       /\ SetConfig(p, [config EXCEPT !.PALevel = loc[p].tmp], mu, "ur_wr")

SetAutoRetransmit(p) ==
    \/ /\ pc[p] = "sr_check"
       /\ setRetransmitInvalid(loc[p].tmp, loc[p].size)
       /\ Fail(p, "ErrRetransmit", mu)
       /\ Goto(p, "set_ret")
    \/ /\ pc[p] = "sr_check"
       /\ ~setRetransmitInvalid(loc[p].tmp, loc[p].size)
       /\ Pass(p, "sr_lock")
    \/ /\ pc[p] = "sr_lock"
       /\ Lock(p, "sr_wr")
    \/ /\ pc[p] = "sr_wr"
       /\ WriteStep(p, SETUP_RETR, setupRetr(loc[p].tmp, loc[p].size), "sr_cache")
    \/ /\ pc[p] = "sr_cache"
       /\ SetConfig(p, [config EXCEPT !.AutoRetransmitDelay = loc[p].tmp,
                                      !.AutoRetransmitCount = loc[p].size],
                    NoProc, "set_ret")

SetAddressWidth(p) ==
    \/ /\ pc[p] = "sw_check"
       /\ setWidthInvalid(loc[p].tmp)
       /\ Fail(p, "ErrAddressWidth", mu)
       /\ Goto(p, "set_ret")
    \/ /\ pc[p] = "sw_check"
       /\ ~setWidthInvalid(loc[p].tmp)
       /\ Pass(p, "sw_lock")
    \/ /\ pc[p] = "sw_lock"
       /\ Lock(p, "sw_wr")
    \/ /\ pc[p] = "sw_wr"
       /\ WriteStep(p, SETUP_AW, loc[p].tmp - 2, "sw_cache")
    \/ /\ pc[p] = "sw_cache"
       /\ SetConfig(p, [config EXCEPT !.AddressWidth = loc[p].tmp], NoProc, "set_ret")

\* The return of a setter.
SetterReturns(p) ==
    /\ pc[p] = "set_ret"
    /\ Leave(p)
    /\ UNCHANGED <<config, irq, mu, ce, radio, watch, edgePending, irqChan, busLast>>

\* The calls of the setters, with arguments at and beyond the limits of
\* their ranges; DataRate(7) and PALevel(9) are values of the types that are
\* none of the declared constants.
CallSetter(p) ==
    \/ \E channel \in {124, 125} :
          Call(p, [IdleLoc EXCEPT !.op = "SetChannel", !.tmp = channel], "sc_check")
    \/ \E rate \in {DataRate250kbps, DataRate1mbps, DataRate2mbps, 7} :
          Call(p, [IdleLoc EXCEPT !.op = "SetDataRate", !.tmp = rate], "sd_lock")
    \/ \E level \in {PALevelMin, PALevelLow, PALevelHigh, PALevelMax, 9} :
          Call(p, [IdleLoc EXCEPT !.op = "SetPALevel", !.tmp = level], "sp_lock")
    \/ \E a \in {<<0, 0>>, <<250, 0>>, <<300, 0>>, <<4000, 15>>, <<4250, 0>>, <<250, 16>>} :
          Call(p, [IdleLoc EXCEPT !.op = "SetAutoRetransmit", !.tmp = a[1], !.size = a[2]],
               "sr_check")
    \/ \E width \in {2, 3, 5, 6} :
          Call(p, [IdleLoc EXCEPT !.op = "SetAddressWidth", !.tmp = width], "sw_check")

(***************************************************************************)
(* Close.  The closing of the SPI port and the release of the IRQ pin are  *)
(* entries of the log, as the transfers are.                               *)
(***************************************************************************)
\* A power-down value that clears every bit of CONFIG.
powerDownValueZero(val) == 0

\* readRegister(_CONFIG) &^ _PWR_UP
powerDownValue(val) == AndNot(val, PWR_UP)

\* An entry of p's log that is no transfer.
Note(p, kinds) ==
    xfer' = [xfer EXCEPT ![p] = @ \o [i \in 1..Len(kinds) |->
                                        [k |-> kinds[i], tx |-> <<>>, rx |-> <<>>]]]

Close(p) ==
    \/ /\ pc[p] = "cl_lock"
       /\ Lock(p, "cl_rd")
    \/ /\ pc[p] = "cl_rd"
       /\ ReadStep(p, CONFIG, "cl_wr", TRUE)
    \/ /\ pc[p] = "cl_wr"
       /\ Bus(p, writeRegisterCmd(CONFIG, powerDownValue(loc[p].status)), FALSE)
       /\ Goto(p, "cl_port")
       /\ UNCHANGED <<mu, loc>>
    \/ /\ pc[p] = "cl_port"
       \* dev.nrfPort is nil (a device made by newDriver), or its Close
       \* succeeds, or fails and the failure is logged.
       /\ \E kinds \in {<<>>, <<"close">>, <<"close", "warn">>} : Note(p, kinds)
       /\ Goto(p, "cl_irq")
       /\ UNCHANGED <<config, irq, mu, ce, radio, watch, edgePending, irqChan,
                      cancelled, loc, hist, busLast>>
    \/ /\ pc[p] = "cl_irq"
       /\ watch' = IF irq THEN FALSE ELSE watch
       /\ Note(p, IF irq THEN <<"unwatch">> ELSE <<>>)
       /\ mu' = NoProc
       /\ Goto(p, "cl_ret")
       /\ UNCHANGED <<config, irq, ce, radio, edgePending, irqChan, cancelled,
                      loc, hist, busLast>>
    \/ /\ pc[p] = "cl_ret"
       /\ Leave(p)
       /\ UNCHANGED <<config, irq, mu, ce, radio, watch, edgePending, irqChan, busLast>>

CallClose(p) == Call(p, [IdleLoc EXCEPT !.op = "Close"], "cl_lock")

(***************************************************************************)
(* PowerDown and PowerUp: a read-modify-write of CONFIG under the mutex.   *)
(***************************************************************************)
\* A power-up value that keeps nothing of what was read.
powerUpValueOnly(val) == PWR_UP

\* readRegister(_CONFIG) | _PWR_UP
powerUpValue(val) == Or(val, PWR_UP)

PowerDown(p) ==
    \/ /\ pc[p] = "pd_lock"
       /\ Lock(p, "pd_rd")
    \/ /\ pc[p] = "pd_rd"
       /\ ReadStep(p, CONFIG, "pd_wr", TRUE)
    \/ /\ pc[p] = "pd_wr"
       /\ Bus(p, writeRegisterCmd(CONFIG, powerDownValue(loc[p].status)), FALSE)
       /\ mu' = NoProc
       /\ Goto(p, "pw_ret")
       /\ UNCHANGED loc
    \/ /\ pc[p] = "pw_ret"
       /\ loc[p].op = "PowerDown"
       /\ Leave(p)
       /\ UNCHANGED <<config, irq, mu, ce, radio, watch, edgePending, irqChan, busLast>>

PowerUp(p) ==
    \/ /\ pc[p] = "pu_lock"
       /\ Lock(p, "pu_rd")
    \/ /\ pc[p] = "pu_rd"
       /\ ReadStep(p, CONFIG, "pu_wr", TRUE)
    \/ /\ pc[p] = "pu_wr"
       /\ Bus(p, writeRegisterCmd(CONFIG, powerUpValue(loc[p].status)), FALSE)
       /\ Goto(p, "pu_sleep")
       /\ UNCHANGED <<mu, loc>>
    \/ /\ pc[p] = "pu_sleep"
       \* The 2 ms of oscillator start-up pass with the mutex held.
       /\ mu' = NoProc
       /\ Goto(p, "pw_ret")
       /\ UNCHANGED <<config, irq, ce, radio, watch, edgePending, irqChan,
                      cancelled, loc, xfer, hist, busLast>>
    \/ /\ pc[p] = "pw_ret"
       /\ loc[p].op = "PowerUp"
       /\ Leave(p)
       /\ UNCHANGED <<config, irq, mu, ce, radio, watch, edgePending, irqChan, busLast>>

CallPowerDown(p) == Call(p, [IdleLoc EXCEPT !.op = "PowerDown"], "pd_lock")

CallPowerUp(p) == Call(p, [IdleLoc EXCEPT !.op = "PowerUp"], "pu_lock")

(***************************************************************************)
(* Construction, step by step: newDriver called with any Config, on a bus  *)
(* with or without a chip.                                                 *)
(***************************************************************************)
BaseConfig ==
    [EnableDynamicPayload |-> FALSE,
     PayloadSize |-> StaticPayloadSize,
     EnableAutoAck |-> FALSE,
     DataRate |-> 0,
     PALevel |-> 0,
     AutoRetransmitDelay |-> 0,
     AutoRetransmitCount |-> 0,
     AddressWidth |-> 0,
     CRCLength |-> 0,
     ChannelNumber |-> 76,
     RxAddr |-> <<231, 231, 231, 231, 231>>]

\* The Configs newDriver is called with: every rate, level and CRC length;
\* retransmit delays and counts in and out of range; address widths and
\* channels in and out of range, with every combination of the two switches.
NewConfigs ==
    {[BaseConfig EXCEPT !.DataRate = r, !.PALevel = l, !.CRCLength = k] :
        r \in {DataRate250kbps, DataRate1mbps, DataRate2mbps},
        l \in {PALevelMin, PALevelLow, PALevelHigh, PALevelMax},
        k \in {CRCLengthDisabled, CRCLength8, CRCLength16}}
    \cup {[BaseConfig EXCEPT !.AutoRetransmitDelay = d, !.AutoRetransmitCount = n] :
        d \in {0, 100, 250, 300, 4000, 4250}, n \in {0, 5, 15, 16}}
    \cup {[BaseConfig EXCEPT !.AddressWidth = w, !.ChannelNumber = ch,
                             !.EnableDynamicPayload = dy, !.EnableAutoAck = aa,
                             !.PayloadSize = IF dy THEN 0 ELSE StaticPayloadSize] :
        w \in {0, 2, 3, 5, 6}, ch \in {76, 124, 125}, dy \in BOOLEAN, aa \in BOOLEAN}

\* c.AddressWidth < 3 || c.AddressWidth > 5, after the defaults.
addressWidthInvalid(c) == c.AddressWidth < 3 \/ c.AddressWidth > 5

\* dev.config.ChannelNumber > 124
channelInvalid(c) == c.ChannelNumber > 124

NewInit ==
    /\ config \in NewConfigs
    /\ irq \in BOOLEAN
    /\ mu = NoProc
    /\ ce \in BOOLEAN
    /\ radio \in {[ResetRadio EXCEPT !.miso = m] : m \in {"chip", "low", "high"}}
    /\ watch = FALSE
    /\ edgePending = FALSE
    /\ irqChan = 0
    /\ cancelled = [p \in Procs |-> FALSE]
    /\ pc = [p \in Procs |-> IF p \in {1} THEN "new_defaults" ELSE "idle"]
    /\ stk = [p \in Procs |-> <<>>]
    /\ loc = [p \in Procs |-> IF p \in {1} THEN [IdleLoc EXCEPT !.op = "newDriver", !.c = config]
                                           ELSE IdleLoc]
    /\ xfer = [p \in Procs |-> <<>>]
    /\ hist = [p \in Procs |-> NoHist]
    /\ busLast = NoProc

newDriverSteps(p) ==
    \/ /\ pc[p] = "new_defaults"
       /\ config' = ApplyDefaults(config)
       /\ IF addressWidthInvalid(config')
          THEN /\ loc' = [loc EXCEPT ![p].err = "ErrAddressWidth"]
               /\ Goto(p, "new_ret")
          ELSE IF channelInvalid(config')
          THEN /\ loc' = [loc EXCEPT ![p].err = "ErrChannel"]
               /\ Goto(p, "new_ret")
          ELSE /\ Goto(p, "new_ce_out")
               /\ UNCHANGED loc
       /\ UNCHANGED <<irq, mu, ce, radio, watch, edgePending, irqChan, cancelled,
                      xfer, hist, busLast>>
    \/ /\ pc[p] = "new_ce_out"
       /\ SetCE(p, FALSE)
       /\ Goto(p, "new_irq")
       /\ UNCHANGED <<mu, loc>>
    \/ /\ pc[p] = "new_irq"
       /\ ~irq
       /\ Goto(p, "new_setce")
       /\ UNCHANGED <<config, irq, mu, ce, radio, watch, edgePending, irqChan,
                      cancelled, loc, xfer, hist, busLast>>
    \/ /\ pc[p] = "new_irq"
       /\ irq
       /\ watch' = TRUE
       /\ Goto(p, "new_setce")
       /\ UNCHANGED <<config, irq, mu, ce, radio, edgePending, irqChan,
                      cancelled, loc, xfer, hist, busLast>>
    \/ /\ pc[p] = "new_irq"
       /\ irq
       /\ loc' = [loc EXCEPT ![p].err = "ErrWatch"]
       /\ Goto(p, "new_ret")
       /\ UNCHANGED <<config, irq, mu, ce, radio, watch, edgePending, irqChan,
                      cancelled, xfer, hist, busLast>>
    \/ /\ pc[p] = "new_setce"
       /\ SetCE(p, FALSE)
       /\ loc' = [loc EXCEPT ![p].tmp = 1]
       /\ Goto(p, "new_cmd")
       /\ UNCHANGED mu
    \/ /\ pc[p] = "new_cmd"
       /\ Bus(p, newDriverCmds(config)[loc[p].tmp], FALSE)
       /\ IF loc[p].tmp < Len(newDriverCmds(config))
          THEN /\ loc' = [loc EXCEPT ![p].tmp = @ + 1]
               /\ Goto(p, "new_cmd")
          ELSE /\ UNCHANGED loc
               /\ Goto(p, "new_ce_hi")
       /\ UNCHANGED mu
    \/ /\ pc[p] = "new_ce_hi"
       /\ SetCE(p, TRUE)
       /\ loc' = [loc EXCEPT ![p].err = "nil", ![p].ok = TRUE]
       /\ Goto(p, "new_ret")
       /\ UNCHANGED mu

(***************************************************************************)
(* The specifications.                                                     *)
(*   Spec        one application goroutine makes any call at any time,     *)
(*               next to the IRQ watcher, the radio and the air.           *)
(*   ConcSpec    NumProcs goroutines call Transmit, TransmitNoAck and      *)
(*               Receive concurrently on a device without an IRQ pin.      *)
(*   TxFairSpec  the goroutine only transmits and nothing is received, and *)
(*               the goroutine and the supervision timer keep running.     *)
(*   RxFairSpec  the goroutine only waits for packets, and keeps running.  *)
(*   PingSpec    the goroutine calls Ping, Transmit and TransmitNoAck in   *)
(*               any order, next to the IRQ watcher, the radio and the air.*)
(*   AckSpec     the goroutine calls WriteAckPayload on a listening device *)
(*               while packets arrive.                                     *)
(*   NewSpec     newDriver runs once, from any Config, with or without a   *)
(*               chip on the bus.                                          *)
(***************************************************************************)
Solo == {1}

\* The steps of Transmit and TransmitNoAck, all under the mutex.
TxSteps(p) ==
    \/ Transmit(p)
    \/ stopListening(p)
    \/ setTargetAddress(p)
    \/ write(p)
    \/ startListening(p)

\* The steps of Receive, all under the mutex.
RxSteps(p) ==
    \/ Receive(p)
    \/ readDynamic(p)
    \/ readFixedPayload(p)

Waiter(p) ==
    \/ ReceiveBlocking(p)
    \/ WaitForInterrupt(p)
    \/ clearInterrupts(p)

Calls(p) ==
    \/ CallTransmit(p)
    \/ CallReceive(p)
    \/ CallReceiveBlocking(p)
    \/ CallWaitForInterrupt(p)

Air ==
    \/ PacketArrives
    \/ TxDone
    \/ TxFail

Next ==
    \/ \E p \in Solo : Calls(p)
    \/ \E p \in Solo : TxSteps(p)
    \/ \E p \in Solo : RxSteps(p)
    \/ \E p \in Solo : Waiter(p)
    \/ \E p \in Solo : TimeoutFires(p)
    \/ \E p \in Solo : Cancel(p)
    \/ Air
    \/ IrqHandler

Spec == Init /\ [][Next]_vars

\* The device is built without an IRQ pin: the callers poll.
ConcInit == Init /\ ~irq

ConcNext ==
    \/ \E p \in Procs : CallTransmit(p)
    \/ \E p \in Procs : CallReceive(p)
    \/ \E p \in Procs : TxSteps(p)
    \/ \E p \in Procs : RxSteps(p)
    \/ \E p \in Procs : TimeoutFires(p)
    \/ Air

ConcSpec == ConcInit /\ [][ConcNext]_vars

TxFairNext ==
    \/ \E p \in Solo : CallTransmit(p)
    \/ \E p \in Solo : TxSteps(p)
    \/ \E p \in Solo : TimeoutFires(p)
    \/ TxDone
    \/ TxFail
    \/ IrqHandler

\* The goroutine is scheduled again and again, and a timer that runs fires.
TxFairSpec ==
    /\ Init
    /\ [][TxFairNext]_vars
    /\ \A p \in Solo : WF_vars(TxSteps(p))
    /\ \A p \in Solo : WF_vars(TimeoutFires(p))

RxFairNext ==
    \/ \E p \in Solo : CallReceiveBlocking(p)
    \/ \E p \in Solo : CallWaitForInterrupt(p)
    \/ \E p \in Solo : RxSteps(p)
    \/ \E p \in Solo : Waiter(p)
    \/ \E p \in Solo : Cancel(p)
    \/ PacketArrives
    \/ IrqHandler

\* The goroutine is scheduled again and again.
RxFairSpec ==
    /\ Init
    /\ [][RxFairNext]_vars
    /\ \A p \in Solo : WF_vars(RxSteps(p))
    /\ \A p \in Solo : WF_vars(Waiter(p))

\* The IRQ edge handler runs as well: the GPIO library calls it for every
\* edge it has detected.
RxIrqFairSpec == RxFairSpec /\ WF_vars(IrqHandler)

PingNext ==
    \/ \E p \in Solo : CallPing(p)
    \/ \E p \in Solo : CallTransmit(p)
    \/ \E p \in Solo : Ping(p)
    \/ \E p \in Solo : TxSteps(p)
    \/ \E p \in Solo : TimeoutFires(p)
    \/ Air
    \/ IrqHandler

PingSpec == Init /\ [][PingNext]_vars

AckNext ==
    \/ \E p \in Solo : CallWriteAckPayload(p)
    \/ \E p \in Solo : WriteAckPayload(p)
    \/ PacketArrives
    \/ IrqHandler

AckSpec == Init /\ [][AckNext]_vars

\* The configurations the pipe operations run under: static and dynamic
\* payload, addresses of three and of five bytes.
PipeConfigs ==
    {[c EXCEPT !.AddressWidth = w] : c \in InputConfigs, w \in {0, 3}}

\* The device as New leaves it, built without an IRQ pin; lines tells what
\* has become of the bus since: it works ("chip") or fails ("error").
CfgInit(configs, lines) ==
    /\ config \in {ApplyDefaults(c) : c \in configs}
    /\ irq = FALSE
    /\ mu = NoProc
    /\ ce = TRUE
    /\ \E m \in lines : radio = [newDriver(config) EXCEPT !.miso = m]
    /\ watch = irq
    /\ edgePending = FALSE
    /\ irqChan = 0
    /\ cancelled = [p \in Procs |-> FALSE]
    /\ pc = [p \in Procs |-> "idle"]
    /\ stk = [p \in Procs |-> <<>>]
    /\ loc = [p \in Procs |-> IdleLoc]
    /\ xfer = [p \in Procs |-> <<>>]
    /\ hist = [p \in Procs |-> NoHist]
    /\ busLast = NoProc

PipeNext ==
    \/ \E p \in Solo : CallOpenRxPipe(p)
    \/ \E p \in Solo : CallCloseRxPipe(p)
    \/ \E p \in Solo : OpenRxPipe(p)
    \/ \E p \in Solo : CloseRxPipe(p)
    \/ BusBreaks

PipeSpec == CfgInit(PipeConfigs, {"chip"}) /\ [][PipeNext]_vars

SetNext ==
    \/ \E p \in Solo : CallSetter(p)
    \/ \E p \in Solo : SetChannel(p)
    \/ \E p \in Solo : SetDataRate(p)
    \/ \E p \in Solo : SetPALevel(p)
    \/ \E p \in Solo : updateRFSetupStep(p)
    \/ \E p \in Solo : SetAutoRetransmit(p)
    \/ \E p \in Solo : SetAddressWidth(p)
    \/ \E p \in Solo : SetterReturns(p)

\* The setters are called on a bus that works, or on one that has failed
\* since the device was built.
SetSpec == CfgInit(InputConfigs, {"chip", "error"}) /\ [][SetNext]_vars

CloseNext ==
    \/ \E p \in Solo : CallClose(p)
    \/ \E p \in Solo : Close(p)
    \/ PacketArrives
    \/ IrqHandler
    \/ BusBreaks

CloseSpec == Init /\ [][CloseNext]_vars

\* Ping, Close, ReceiveBlocking and WaitForInterrupt called by one
\* goroutine.
LockNext ==
    \/ \E p \in Solo : CallPing(p) \/ CallClose(p)
    \/ \E p \in Solo : CallReceiveBlocking(p) \/ CallWaitForInterrupt(p)
    \/ \E p \in Solo : Ping(p) \/ stopListening(p) \/ setTargetAddress(p) \/ write(p)
    \/ \E p \in Solo : Close(p)
    \/ \E p \in Solo : RxSteps(p) \/ Waiter(p)
    \/ \E p \in Solo : TimeoutFires(p) \/ Cancel(p)
    \/ Air
    \/ IrqHandler

LockSpec == Init /\ [][LockNext]_vars

\* Transmit, TransmitNoAck and Ping interleaved with OpenRxPipe and
\* CloseRxPipe, called by one goroutine on a device without an IRQ pin.
MirrorNext ==
    \/ \E p \in Solo : CallTransmit(p) \/ CallPing(p)
    \/ \E p \in Solo : CallOpenRxPipe(p) \/ CallCloseRxPipe(p)
    \/ \E p \in Solo : TxSteps(p) \/ Ping(p)
    \/ \E p \in Solo : OpenRxPipe(p) \/ CloseRxPipe(p)
    \/ \E p \in Solo : TimeoutFires(p)
    \/ TxDone
    \/ TxFail

MirrorSpec == CfgInit(InputConfigs, {"chip", "error"}) /\ [][MirrorNext]_vars

\* Devices built with either CRC length.
PowerConfigs ==
    {[c EXCEPT !.CRCLength = k] : c \in InputConfigs, k \in {CRCLength8, CRCLength16}}

\* The operations that write CONFIG (the transmissions, Ping, PowerDown,
\* PowerUp, Close) and Receive, called by one goroutine in any order.
PowerNext ==
    \/ \E p \in Solo : CallTransmit(p) \/ CallPing(p) \/ CallReceive(p)
    \/ \E p \in Solo : CallPowerDown(p) \/ CallPowerUp(p) \/ CallClose(p)
    \/ \E p \in Solo : TxSteps(p) \/ Ping(p) \/ RxSteps(p)
    \/ \E p \in Solo : PowerDown(p) \/ PowerUp(p) \/ Close(p)
    \/ \E p \in Solo : TimeoutFires(p)
    \/ Air

PowerSpec == CfgInit(PowerConfigs, {"chip"}) /\ [][PowerNext]_vars

NewNext == \E p \in Solo : newDriverSteps(p)

NewSpec == NewInit /\ [][NewNext]_vars

(***************************************************************************)
(* Properties.                                                             *)
(***************************************************************************)
TxOps == {"Transmit", "TransmitNoAck"}

IsCE(e, level) == e.k = "ce" /\ e.tx = <<IF level THEN 1 ELSE 0>>

IsCmd(e, cmd) == e.k = "spi" /\ e.tx = cmd

\* The log l ends with what startListening does after it has set PRIM_RX.
EndsListening(l) ==
    LET n == Len(l)
    IN  /\ n >= 3
        /\ IsCE(l[n - 2], TRUE)
        /\ IsCmd(l[n - 1], clearStatusCmd)
        /\ IsCmd(l[n], flushRXCmd)

\* The log l ends with a write of all three flags to STATUS and a FLUSH_TX.
EndsClearFlush(l) ==
    LET n == Len(l)
    IN  /\ n >= 2
        /\ IsCmd(l[n - 1], <<W_REGISTER + STATUS, RX_DR + TX_DS + MAX_RT>>)
        /\ IsCmd(l[n], <<FLUSH_TX>>)

\* C1: every Transmit and TransmitNoAck is back in RX mode when it returns,
\* on every return path: startListening has run, CE is High and PRIM_RX is
\* set.
C1_ReturnsListening ==
    \A p \in Solo :
        (pc[p] = "tx_ret" /\ loc[p].op \in TxOps)
            => /\ ce
               /\ Bit(radio.reg[CONFIG], 0) = 1
               /\ EndsListening(xfer[p])

\* C2: while an invocation of Transmit or Receive has begun its transfers
\* and has not returned, the bus and CE were last used by that invocation, so
\* its transfers form one contiguous block.
C2_Contiguous ==
    \A p \in Procs : xfer[p] # <<>> => busLast = p

\* Two invocations overlap: one is in the middle of its transfers and the
\* other is waiting for the mutex.
C2_Overlap ==
    \E p, q \in Procs :
        /\ p # q
        /\ Len(xfer[p]) > 1
        /\ pc[p] \notin {"tx_ret", "rx_ret"}
        /\ pc[q] \in {"tx_lock", "rx_lock"}

\* C3: a poll that observes MAX_RT makes write return ErrMaxRetries, and
\* write returns ErrMaxRetries only after that poll, the write of
\* RX_DR|TX_DS|MAX_RT to STATUS and FLUSH_TX, in this order, with the flags
\* clear and the TX FIFO empty; ErrMaxRetries is not ErrTimeout.
C3_MaxRetries ==
    \A p \in Solo :
        (pc[p] = "st_ce_lo" /\ loc[p].op \in TxOps)
            => /\ (And(loc[p].status, MAX_RT) # 0 /\ loc[p].err # "ErrTimeout")
                     => loc[p].err = "ErrMaxRetries"
               /\ loc[p].err = "ErrMaxRetries"
                     => LET l == xfer[p]
                            n == Len(l)
                        IN  /\ EndsClearFlush(l)
                            /\ n >= 3
                            /\ IsCmd(l[n - 2], readRegisterCmd(STATUS))
                            /\ And(l[n - 2].rx[1], MAX_RT) # 0
                            /\ Flags(radio) = 0
                            /\ radio.txFifo = <<>>
                            /\ "ErrMaxRetries" # "ErrTimeout"

C3_Witness ==
    \E p \in Solo : pc[p] = "st_ce_lo" /\ loc[p].err = "ErrMaxRetries"

\* What write has done when it gives up: the timer set for
\* AutoRetransmitDelay x AutoRetransmitCount + 50 ms had expired, no poll
\* had seen TX_DS or MAX_RT, and the last two transfers are the write of the
\* three flags to STATUS and FLUSH_TX.
TimeoutPath ==
    \A p \in Solo :
        /\ loc[p].timer # "off"
              => loc[p].deadline
                    = config.AutoRetransmitDelay * config.AutoRetransmitCount + 50000
        /\ pc[p] = "w_to_flush" => loc[p].timer = "fired"
        /\ (pc[p] = "st_ce_lo" /\ loc[p].err = "ErrTimeout")
              => /\ EndsClearFlush(xfer[p])
                 /\ And(loc[p].status, TX_DS + MAX_RT) = 0

\* C4: Transmit always terminates: a poll loop that sees neither TX_DS nor
\* MAX_RT ends when the supervision timer expires, with STATUS cleared,
\* FLUSH_TX issued and ErrTimeout returned.
\* A poll loop whose timer has expired takes the timeout case next.
TimeoutTaken ==
    \A p \in Solo :
        (pc[p] = "w_poll" /\ loc[p].timer = "fired" /\ pc'[p] # pc[p])
            => pc'[p] = "w_to_flush"

Entries(l, c) == {i \in 1..Len(l) : l[i].k = "spi" /\ l[i].tx[1] = c}

\* C5: when Receive returns a packet, the packet is exactly the response of
\* the R_RX_PAYLOAD transfer, as long as R_RX_PL_WID reported (1..32) in
\* dynamic mode and PayloadSize in static mode, that transfer came before the
\* write that clears STATUS, and nothing after it changed the bytes; Receive
\* returns no packet only when STATUS reported an empty RX FIFO or the
\* dynamic width was 0 or over 32.
C5_Payload ==
    \A p \in Solo :
        pc[p] = "rx_ret"
            => LET l == xfer[p]
                   n == Len(l)
                   rd == Entries(l, R_RX_PAYLOAD)
                   wd == Entries(l, R_RX_PL_WID)
               IN  IF loc[p].ok
                   THEN /\ \E i \in rd :
                              /\ rd = {i}
                              /\ i = n - 1
                              /\ loc[p].data = l[i].rx
                              /\ Len(l[i].tx) = Len(loc[p].data) + 1
                        /\ IsCmd(l[n], clearStatusCmd)
                        /\ IF config.EnableDynamicPayload
                           THEN \E j \in wd :
                                   /\ wd = {j}
                                   /\ Len(loc[p].data) = l[j].rx[1]
                                   /\ Len(loc[p].data) \in 1..MAX_PAYLOAD_BYTES
                           ELSE Len(loc[p].data) = config.PayloadSize
                   ELSE /\ rd = {}
                        /\ \/ And(l[1].rx[1] \div 2, 7) = 7
                           \/ \E j \in wd : l[j].rx[1] = 0 \/ l[j].rx[1] > MAX_PAYLOAD_BYTES

\* C5, at the radio: the bytes Receive takes are the packet at the head of
\* the RX FIFO, and the transfers after the read leave them alone.
C5_FromFifo ==
    \A p \in Solo :
        /\ (pc[p] \in {"rd_payload", "rf_payload"} /\ pc'[p] \in {"rd_clear", "rf_clear"})
              => /\ radio.rxFifo # <<>>
                 /\ loc'[p].data = radio.rxFifo[1].data
        /\ (pc[p] \in {"rd_clear", "rf_clear", "rx_ret"} /\ loc[p].op = loc'[p].op)
              => loc'[p].data = loc[p].data

C5_Receive == []C5_Payload /\ [][C5_FromFifo]_vars

C5_Witness ==
    \E p \in Solo : pc[p] = "rx_ret" /\ loc[p].ok /\ loc[p].data = <<104, 105>>

\* C6: ReceiveBlocking called with its context already cancelled returns
\* Cancelled without data, without a wait and without a bus transfer, and
\* the IRQ subscription is as it was at the call.
C6_PreCancelled ==
    \A p \in Solo :
        (loc[p].op = "ReceiveBlocking" /\ hist[p].preCancel)
            => /\ pc[p] \in {"rb_top", "rb_ret"}
               /\ ~hist[p].busUsed
               /\ watch = hist[p].watchAtCall
               /\ pc[p] = "rb_ret"
                     => loc[p].err = "Cancelled" /\ loc[p].data = <<>> /\ ~loc[p].ok

C6_Witness ==
    \E p \in Solo :
        /\ loc[p].op = "ReceiveBlocking"
        /\ hist[p].preCancel
        /\ pc[p] = "rb_ret"
        /\ loc[p].err = "Cancelled"
        /\ radio.rxFifo = <<>>

\* The steps in which a call comes to return Cancelled: taken at the top of
\* the loop or in a wait, by a goroutine that does not hold the mutex, and
\* without a bus transfer.
CancelPoints ==
    \A p \in Solo :
        (loc'[p].err = "Cancelled" /\ loc[p].err # "Cancelled")
            => /\ pc[p] \in {"rb_top", "wfi_select", "rb_sleep"}
               /\ mu # p
               /\ radio' = radio
               /\ xfer' = xfer

\* C7: a ReceiveBlocking that is waiting (for the IRQ token or in the 5 ms
\* sleep) when its context is cancelled eventually returns Cancelled, and
\* cancellation is acted on only between bus transfers and in waits.
C7_CancelWhileWaiting ==
    /\ [][CancelPoints]_vars
    /\ \A p \in Solo :
          (loc[p].op = "ReceiveBlocking" /\ cancelled[p] /\ ~hist[p].preCancel
              /\ pc[p] \in {"wfi_select", "rb_sleep"})
            ~> (pc[p] = "rb_ret" /\ loc[p].err = "Cancelled")

C7_Witness ==
    \E p \in Solo :
        /\ loc[p].op = "ReceiveBlocking"
        /\ ~hist[p].preCancel
        /\ pc[p] = "rb_ret"
        /\ loc[p].err = "Cancelled"
        /\ hist[p].busUsed

\* C8: ReceiveBlocking never goes to wait again with an interrupt flag it
\* has observed asserted and left uncleared.
C8_ClearsBeforeWaiting ==
    \A p \in Solo :
        (loc[p].op = "ReceiveBlocking" /\ pc[p] = "wfi_entry") => hist[p].stale = 0

\* C9: WaitForInterrupt returns a STATUS value only when the IRQ pin was Low
\* at the call or a falling edge occurred after the call began.
C9_EdgeSinceCall ==
    \A p \in Solo :
        (pc[p] = "wfi_ret" /\ loc[p].err = "nil" /\ ~hist[p].pinLow) => hist[p].edge

\* One run of the handler: a token is pushed into an empty queue, the edge
\* is dropped when the queue is full.
HandlerStep ==
    (edgePending /\ ~edgePending')
        => irqChan' = (IF irqChan = 0 THEN 1 ELSE irqChan)

\* One wake of WaitForInterrupt takes one token, and nothing else takes any.
WakeStep ==
    /\ irqChan' >= irqChan - 1
    /\ irqChan' < irqChan
          => \E p \in Solo : pc[p] = "wfi_select" /\ pc'[p] = "wfi_rd"

\* C10: the queue never holds more than one token, the handler can always
\* run to completion (it pushes into an empty queue and drops the edge when
\* the queue is full), and a wake consumes at most one token.
C10_SignalQueue ==
    /\ [](irqChan \in 0..IrqChanCap)
    /\ [](edgePending => ENABLED IrqHandler)
    /\ [][HandlerStep]_vars
    /\ [][WakeStep]_vars

\* The handler is about to run with the queue full.
C10_Witness == edgePending /\ irqChan = IrqChanCap

\* newDriver has returned to its caller.
Constructed(p) == pc[p] = "new_ret" /\ loc[p].op = "newDriver"

\* What a read of RF_CH on the bus returns in this state.
ChannelReadback == readRegisterVal(spiTransfer(radio, readRegisterCmd(RF_CH)).response)

\* C11: construction never succeeds against a bus whose RF_CH readback
\* differs from the configured channel: when newDriver returns without an
\* error, a read of RF_CH returns the channel it programmed.
C11_ReadbackChecked ==
    \A p \in Solo :
        (Constructed(p) /\ loc[p].err = "nil") => ChannelReadback = config.ChannelNumber

\* A retransmit delay that is not a multiple of 250 within 250..4000, or a
\* retransmit count above 15.
RetransmitInvalid(c) ==
    \/ c.AutoRetransmitDelay < 250
    \/ c.AutoRetransmitDelay > 4000
    \/ c.AutoRetransmitDelay % 250 # 0
    \/ c.AutoRetransmitCount > 15

\* C12: the configuration is validated before the hardware is touched: once
\* the defaults are applied, a channel above 124, an address width outside
\* 3..5, an invalid retransmit delay or a retransmit count above 15 makes
\* newDriver return an error, with no bus transfer issued and CE not driven.
C12_ValidatedFirst ==
    \A p \in Solo :
        (/\ loc[p].op = "newDriver"
         /\ pc[p] # "new_defaults"
         /\ \/ channelInvalid(config)
            \/ addressWidthInvalid(config)
            \/ RetransmitInvalid(config))
            => /\ pc[p] = "new_ret"
               /\ loc[p].err # "nil"
               /\ xfer[p] = <<>>

\* The opcodes of the configuration transfers, in the order of construction.
ConfigOrder(dynamic) ==
    <<W_REGISTER + CONFIG, W_REGISTER + STATUS, FLUSH_TX, FLUSH_RX,
      W_REGISTER + CONFIG, W_REGISTER + RF_CH, W_REGISTER + SETUP_AW,
      W_REGISTER + SETUP_RETR, W_REGISTER + RF_SETUP, W_REGISTER + EN_AA,
      W_REGISTER + EN_RXADDR, W_REGISTER + RX_ADDR_P1, W_REGISTER + FEATURE,
      W_REGISTER + DYNPD>>
    \o (IF dynamic THEN <<>> ELSE <<W_REGISTER + RX_PW_P0, W_REGISTER + RX_PW_P1>>)

\* PWR_UP|PRIM_RX with the CRC bits of the CRC length.
PowerUpValue(crc) == 3 + (IF crc = CRCLength8 THEN 8 ELSE IF crc = CRCLength16 THEN 12 ELSE 0)

\* C13: CE is driven Low before the first register write and is Low in every
\* state of the configuration; the transfers are the configuration writes in
\* their order (CONFIG = 0 first, the power-up value fifth); CE is raised
\* once, as the last step, and a device constructed on a chip ends with CE
\* High and CONFIG = PWR_UP|PRIM_RX|CRC bits (15 for a 16-bit CRC).
C13_ConstructionOrder ==
    \A p \in Solo :
        /\ (loc[p].op = "newDriver" /\ pc[p] \in {"new_irq", "new_setce", "new_cmd", "new_ce_hi"})
              => /\ ~ce
                 /\ IsCE(xfer[p][1], FALSE)
                 /\ \A i \in 1..Len(xfer[p]) : xfer[p][i].k = "ce" => IsCE(xfer[p][i], FALSE)
        /\ (Constructed(p) /\ loc[p].err = "nil")
              => LET l == xfer[p]
                     n == Len(l)
                     order == ConfigOrder(config.EnableDynamicPayload)
                 IN  /\ n = Len(order) + 3
                     /\ IsCE(l[1], FALSE)
                     /\ IsCE(l[2], FALSE)
                     /\ \A i \in 1..Len(order) : l[i + 2].k = "spi" /\ l[i + 2].tx[1] = order[i]
                     /\ l[3].tx = <<W_REGISTER + CONFIG, 0>>
                     /\ l[7].tx = <<W_REGISTER + CONFIG, PowerUpValue(config.CRCLength)>>
                     /\ IsCE(l[n], TRUE)
                     /\ ce
                     /\ radio.miso = "chip" => radio.reg[CONFIG] = PowerUpValue(config.CRCLength)
                     /\ (radio.miso = "chip" /\ config.CRCLength = CRCLength16)
                           => radio.reg[CONFIG] = 15

C13_Witness ==
    \E p \in Solo :
        /\ Constructed(p)
        /\ loc[p].err = "nil"
        /\ radio.miso = "chip"
        /\ radio.reg[CONFIG] = 15
        /\ ce
        /\ ~config.EnableDynamicPayload
        /\ Len(xfer[p]) = 19

C15_ExplicitValues ==
    \A p \in Solo :
        (Constructed(p) /\ loc[p].err = "nil" /\ radio.miso = "chip")
            => /\ (radio.reg[RF_SETUP] \div 2) % 4 = loc[p].c.PALevel
               /\ loc[p].c.AutoRetransmitCount <= 15
                     => radio.reg[SETUP_RETR] % 16 = loc[p].c.AutoRetransmitCount
               /\ (radio.reg[CONFIG] \div 4) % 4 =
                     (CASE loc[p].c.CRCLength = CRCLengthDisabled -> 0
                        [] loc[p].c.CRCLength = CRCLength8 -> 2
                        [] loc[p].c.CRCLength = CRCLength16 -> 3)

IsTxPayload(e) == e.k = "spi" /\ e.tx[1] \in {160, 176}

\* C16: the TX payload transfer of Transmit and TransmitNoAck is the opcode
\* byte followed by exactly len(payload) bytes, the payload, with dynamic
\* payloads, and by exactly PayloadSize bytes with a static size: the payload
\* followed by zero bytes.
C16_PayloadTransfer ==
    \A p \in Solo :
        loc[p].op \in TxOps
            => \A i \in 1..Len(xfer[p]) :
                  IsTxPayload(xfer[p][i])
                      => LET tx == xfer[p][i].tx
                             pl == loc[p].payload
                         IN  IF config.EnableDynamicPayload
                             THEN /\ Len(tx) = 1 + Len(pl)
                                  /\ Tail(tx) = pl
                             ELSE /\ Len(tx) = 1 + config.PayloadSize
                                  /\ \A j \in 1..config.PayloadSize :
                                        tx[j + 1] = IF j <= Len(pl) THEN pl[j] ELSE 0

\* A payload shorter than the static size has been written, padded.
C16_Witness ==
    \E p \in Solo :
        /\ loc[p].op \in TxOps
        /\ pc[p] = "w_ce_hi"
        /\ ~config.EnableDynamicPayload
        /\ Len(loc[p].payload) < config.PayloadSize
        /\ IsTxPayload(xfer[p][Len(xfer[p])])
        /\ xfer[p][Len(xfer[p])].tx[Len(loc[p].payload) + 2] = 0

\* The limit on the payload length: 32 bytes with dynamic payloads, the
\* static size otherwise.
OverLimit(p) == Len(loc[p].payload) > (IF config.EnableDynamicPayload THEN 32 ELSE config.PayloadSize)

\* C17: a payload over the limit makes Transmit and TransmitNoAck return an
\* error without a write of TX_ADDR or RX_ADDR_P0, without a TX payload
\* write and without CE going High in that call; a payload within the limit,
\* shorter than the static size included, is accepted and written.
C17_LengthEnforced ==
    \A p \in Solo :
        loc[p].op \in TxOps
            => /\ OverLimit(p)
                  => /\ \A i \in 1..Len(xfer[p]) :
                           /\ ~IsTxPayload(xfer[p][i])
                           /\ ~IsCE(xfer[p][i], TRUE)
                           /\ xfer[p][i].k = "spi"
                                 => xfer[p][i].tx[1] \notin {W_REGISTER + TX_ADDR_REG,
                                                             W_REGISTER + RX_ADDR_P0}
                     /\ pc[p] = "tx_ret" => loc[p].err # "nil"
               /\ (~OverLimit(p) /\ pc[p] = "tx_ret")
                  => /\ loc[p].err # "ErrPayloadTooLarge"
                     /\ \E i \in 1..Len(xfer[p]) : IsTxPayload(xfer[p][i])

C17_Witness ==
    \E p \in Solo :
        /\ loc[p].op \in TxOps
        /\ pc[p] = "tx_ret"
        /\ OverLimit(p)
        /\ loc[p].err # "nil"
        /\ Len(xfer[p]) = 3

\* The entries i..i+2 of l are what stopListening does: CE Low, a read of
\* CONFIG, and the value read written back without PRIM_RX.
StopsAt(l, i) ==
    /\ IsCE(l[i], FALSE)
    /\ IsCmd(l[i + 1], <<CONFIG, NOP>>)
    /\ IsCmd(l[i + 2], <<W_REGISTER + CONFIG, l[i + 1].rx[1] - (l[i + 1].rx[1] % 2)>>)

\* The entries i..i+5 of l are what startListening does.
StartsAt(l, i) ==
    /\ IsCE(l[i], FALSE)
    /\ IsCmd(l[i + 1], <<CONFIG, NOP>>)
    /\ IsCmd(l[i + 2], <<W_REGISTER + CONFIG, (l[i + 1].rx[1] - (l[i + 1].rx[1] % 2)) + 1>>)
    /\ IsCE(l[i + 3], TRUE)
    /\ IsCmd(l[i + 4], <<W_REGISTER + STATUS, 112>>)
    /\ IsCmd(l[i + 5], <<FLUSH_RX>>)

\* A STATUS byte with TX_DS or MAX_RT.
Ended(status) == (status \div 16) % 4 # 0

\* The log l is the sequence of a transmission of payload to dest that loads
\* the payload with the opcode op and returns err: stopListening, the two
\* address writes, stopListening, the payload, the CE pulse, the STATUS polls
\* up to the first that shows TX_DS or MAX_RT (or none that does, for a
\* timeout), the STATUS clear (and FLUSH_TX unless the packet was sent), and
\* startListening; err is what the last poll decides.
TxSequence(l, c, dest, payload, op, err) ==
    LET n == Len(l)
        tailLen == IF err = "nil" THEN 1 ELSE 2
        last == n - 6 - tailLen
    IN  /\ n >= 12 + tailLen + 6
        /\ StopsAt(l, 1)
        /\ IsCE(l[4], FALSE)
        /\ IsCmd(l[5], <<W_REGISTER + TX_ADDR_REG>> \o dest)
        /\ IsCmd(l[6], <<W_REGISTER + RX_ADDR_P0>> \o dest)
        /\ StopsAt(l, 7)
        /\ IsCmd(l[10], <<op>> \o (IF c.EnableDynamicPayload THEN payload
                                  ELSE [j \in 1..c.PayloadSize |->
                                           IF j <= Len(payload) THEN payload[j] ELSE 0]))
        /\ IsCE(l[11], TRUE)
        /\ IsCE(l[12], FALSE)
        /\ \A i \in 13..last : IsCmd(l[i], <<STATUS, NOP>>)
        /\ \A i \in 13..last - 1 : ~Ended(l[i].rx[1])
        /\ IsCmd(l[last + 1], <<W_REGISTER + STATUS, 112>>)
        /\ err # "nil" => IsCmd(l[last + 2], <<FLUSH_TX>>)
        /\ err \in {"nil", "ErrMaxRetries", "ErrTimeout"}
        /\ err = "nil" <=> (last >= 13 /\ Ended(l[last].rx[1]) /\ (l[last].rx[1] \div 16) % 2 = 0)
        /\ err = "ErrMaxRetries" <=> (last >= 13 /\ (l[last].rx[1] \div 16) % 2 = 1)
        /\ StartsAt(l, n - 5)

\* C18: Transmit and TransmitNoAck produce the same sequence of bus
\* transfers and CE transitions and the same result for the same
\* configuration, destination, payload and STATUS responses, but for the
\* opcode of the payload transfer: W_TX_PAYLOAD (160) for Transmit and
\* W_TX_PAYLOAD_NOACK (176) for TransmitNoAck.  Over the limit both return
\* the same error after stopListening alone.
C18_SameButOpcode ==
    \A p \in Solo :
        (pc[p] = "tx_ret" /\ loc[p].op \in TxOps)
            => IF OverLimit(p)
               THEN /\ Len(xfer[p]) = 3
                    /\ StopsAt(xfer[p], 1)
                    /\ loc[p].err = "ErrPayloadTooLarge"
               ELSE TxSequence(xfer[p], config, loc[p].dest, loc[p].payload,
                               IF loc[p].op = "TransmitNoAck" THEN 176 ELSE 160,
                               loc[p].err)

C18_Witness ==
    \E p \in Solo :
        /\ pc[p] = "tx_ret"
        /\ loc[p].op = "TransmitNoAck"
        /\ loc[p].err = "nil"
        /\ xfer[p][10].tx[1] = 176

\* C19: Ping never returns an error; it makes one transmission of one byte
\* (0) with W_TX_PAYLOAD, and returns true exactly when the poll that ended
\* the transmission showed TX_DS (without MAX_RT), false when it showed
\* MAX_RT or when the timer expired.
C19_Ping ==
    \A p \in Solo :
        (pc[p] = "pg_ret" /\ loc[p].op = "Ping")
            => LET l == xfer[p]
                   n == Len(l)
                   polls == {i \in 1..n : IsCmd(l[i], <<STATUS, NOP>>)}
                   sent == \E i \in polls : (l[i].rx[1] \div 16) % 4 = 2
               IN  /\ loc[p].err = "nil"
                   /\ loc[p].ok <=> sent
                   /\ Cardinality({i \in 1..n : IsTxPayload(l[i])}) = 1
                   /\ \A i \in 1..n : IsTxPayload(l[i])
                         => l[i].tx = <<160>> \o [j \in 1..Len(l[i].tx) - 1 |-> 0]
                   /\ config.EnableDynamicPayload
                         => \E i \in 1..n : IsCmd(l[i], <<160, 0>>)

C19_Witness ==
    \E p \in Solo : pc[p] = "pg_ret" /\ loc[p].op = "Ping" /\ ~loc[p].ok /\ loc[p].err = "nil"

\* C20: WriteAckPayload issues its transfer, W_ACK_PAYLOAD|pipeID followed
\* by the data, only when auto-ack and dynamic payloads are enabled, pipeID
\* is in 0..5 and the data is 1 to 32 bytes long; in every other case it
\* returns an error and performs no bus transfer.
C20_AckPayloadChecked ==
    \A p \in Solo :
        loc[p].op = "WriteAckPayload"
            => LET permitted == /\ config.EnableAutoAck
                                /\ config.EnableDynamicPayload
                                /\ loc[p].tmp \in 0..5
                                /\ Len(loc[p].payload) \in 1..32
               IN  /\ xfer[p] # <<>> => permitted
                   /\ (pc[p] = "ap_ret" /\ permitted)
                         => /\ loc[p].err = "nil"
                            /\ Len(xfer[p]) = 1
                            /\ IsCmd(xfer[p][1], <<168 + loc[p].tmp>> \o loc[p].payload)
                   /\ (pc[p] = "ap_ret" /\ ~permitted)
                         => /\ loc[p].err # "nil"
                            /\ xfer[p] = <<>>


PipeOps == {"OpenRxPipe", "CloseRxPipe"}

PipeRets == {"op_ret", "cp_ret"}

\* The registers are what they were when p made its call.
RegistersKept(p) ==
    /\ radio.reg = hist[p].pre.radio.reg
    /\ radio.areg = hist[p].pre.radio.areg

\* C21: OpenRxPipe and CloseRxPipe called with a pipe ID outside 0..5 go
\* from their check straight to the return of an invalid-argument error:
\* no bus transfer is made, the mutex is not taken, and the registers are
\* what they were at the call.
C21_PipeRange ==
    \A p \in Procs :
        (loc[p].op \in PipeOps /\ (loc[p].tmp < 0 \/ loc[p].tmp > 5)) =>
            /\ pc[p] \in {"op_check", "cp_check"} \/ (pc[p] \in PipeRets /\ loc[p].err = "ErrPipe")
            /\ xfer[p] = <<>>
            /\ mu # p
            /\ RegistersKept(p)

C21_Witness ==
    \E p \in Procs :
        /\ pc[p] = "op_ret" /\ loc[p].tmp = 6 /\ loc[p].err = "ErrPipe"
        /\ loc[p].dest = <<5, 4, 3, 2, 1>>

\* The writes of the log l to the register reg.
WritesTo(l, reg) == {i \in 1..Len(l) : l[i].k = "spi" /\ l[i].tx[1] = W_REGISTER + reg}

\* The writes of the log l.
Writes(l) ==
    {i \in 1..Len(l) : l[i].k = "spi" /\ l[i].tx[1] >= W_REGISTER /\ l[i].tx[1] < 2 * W_REGISTER}

\* OpenRxPipe(n, addr) must refuse addr: shorter than the address width for
\* pipes 0 and 1, empty for the others.
AddrRefused(p) ==
    IF loc[p].tmp \in {0, 1} THEN Len(loc[p].dest) < config.AddressWidth
    ELSE loc[p].dest = <<>>

\* C22: OpenRxPipe(n, addr) with n in 0..5, at its return.  A refused
\* address gives an error and no transfer at all.  Otherwise the call
\* succeeds; its first transfer, and its only write to RX_ADDR_Pn, carries
\* the first AddressWidth bytes of addr for n in {0, 1} and the single byte
\* addr[0] for n in 2..5, and on a working bus the register holds them and
\* bit n of EN_RXADDR is set.
C22_PipeAddress ==
    \A p \in Procs :
        (pc[p] = "op_ret" /\ loc[p].tmp \in 0..5) =>
            LET n == loc[p].tmp
                addr == loc[p].dest
                w == config.AddressWidth
            IN  IF AddrRefused(p)
                THEN loc[p].err = "ErrAddress" /\ xfer[p] = <<>> /\ RegistersKept(p)
                ELSE /\ loc[p].err = "nil"
                     /\ WritesTo(xfer[p], RX_ADDR_P0 + n) = {1}
                     /\ xfer[p][1].tx =
                           <<W_REGISTER + RX_ADDR_P0 + n>>
                           \o (IF n <= 1 THEN [i \in 1..w |-> addr[i]] ELSE <<addr[1]>>)
                     /\ ~hist[p].busErr =>
                           /\ IF n <= 1
                              THEN radio.areg[RX_ADDR_P0 + n] = [i \in 1..w |-> addr[i]]
                              ELSE radio.reg[RX_ADDR_P0 + n] = addr[1]
                           /\ Bit(radio.reg[EN_RXADDR], n) = 1

\* A five-byte address given for a pipe of three-byte addresses.
C22_Witness ==
    \E p \in Procs :
        /\ pc[p] = "op_ret" /\ loc[p].tmp = 0 /\ loc[p].err = "nil"
        /\ loc[p].dest = <<5, 4, 3, 2, 1>>
        /\ radio.areg[RX_ADDR_P0] = <<5, 4, 3>>

\* The bytes a and b agree on every bit but bit n.
SameBut(a, b, n) == \A i \in 0..7 : i # n => Bit(a, i) = Bit(b, i)

\* Register reg is what it was at p's call but for bit n, which is v.
OnlyBit(p, reg, n, v) ==
    /\ SameBut(radio.reg[reg], hist[p].pre.radio.reg[reg], n)
    /\ Bit(radio.reg[reg], n) = v

\* In the log l, every write to reg comes right after a read of reg and
\* carries the value read but for bit n, which is v.
ReadModifyWrite(l, reg, n, v) ==
    \A i \in WritesTo(l, reg) :
        /\ i > 1
        /\ l[i - 1].tx = <<reg, NOP>>
        /\ Len(l[i].tx) = 2
        /\ SameBut(l[i].tx[2], readRegisterVal(l[i - 1].rx), n)
        /\ Bit(l[i].tx[2], n) = v

Flag(b) == IF b THEN 1 ELSE 0

\* C23: at the return of a successful CloseRxPipe(n) or OpenRxPipe(n, _).
\* Each write to a bitmask register carries the value just read, changed in
\* bit n only: cleared in EN_RXADDR and EN_AA by CloseRxPipe; set in
\* EN_RXADDR, set or cleared in EN_AA (auto-ack) and DYNPD (dynamic payload)
\* by OpenRxPipe.  On a working bus the registers end as they were at the
\* call but for those bits, and CloseRxPipe writes EN_RXADDR and EN_AA only,
\* so that addresses, RX_PW_Pn and DYNPD stay as they were.
C23_OnlyBitN ==
    \A p \in Procs :
        (pc[p] \in PipeRets /\ loc[p].err = "nil") =>
            LET n == loc[p].tmp
                l == xfer[p]
                closing == pc[p] = "cp_ret"
                en == Flag(~closing)
                aa == Flag(~closing /\ config.EnableAutoAck)
                dyn == Flag(config.EnableDynamicPayload)
            IN  /\ ReadModifyWrite(l, EN_RXADDR, n, en)
                /\ ReadModifyWrite(l, EN_AA, n, aa)
                /\ ReadModifyWrite(l, DYNPD, n, dyn)
                /\ WritesTo(l, EN_RXADDR) # {} /\ WritesTo(l, EN_AA) # {}
                /\ closing => Writes(l) = WritesTo(l, EN_RXADDR) \cup WritesTo(l, EN_AA)
                /\ ~closing => WritesTo(l, DYNPD) # {}
                /\ ~hist[p].busErr =>
                      /\ OnlyBit(p, EN_RXADDR, n, en)
                      /\ OnlyBit(p, EN_AA, n, aa)
                      /\ IF closing
                         THEN /\ radio.areg = hist[p].pre.radio.areg
                              /\ \A a \in 0..29 \ {EN_RXADDR, EN_AA} :
                                    radio.reg[a] = hist[p].pre.radio.reg[a]
                         ELSE OnlyBit(p, DYNPD, n, dyn)

\* CloseRxPipe(2) of an open pipe 2: EN_RXADDR goes from 0b111 to 0b011.
C23_Witness ==
    \E p \in Procs :
        /\ pc[p] = "cp_ret" /\ loc[p].tmp = 2 /\ loc[p].err = "nil"
        /\ ~hist[p].busErr
        /\ hist[p].pre.radio.reg[EN_RXADDR] = 7
        /\ radio.reg[EN_RXADDR] = 3
        /\ hist[p].pre.radio.reg[EN_AA] = 7
        /\ radio.reg[EN_AA] = 3


Setters == {"SetChannel", "SetDataRate", "SetPALevel", "SetAutoRetransmit", "SetAddressWidth"}

\* The argument of p's setter call is outside the setter's range.
SetterArgInvalid(p) ==
    CASE loc[p].op = "SetChannel" -> loc[p].tmp > 124
      [] loc[p].op = "SetAddressWidth" -> loc[p].tmp \notin 3..5
      [] loc[p].op = "SetAutoRetransmit" ->
            loc[p].tmp \notin {250 * k : k \in 1..16} \/ loc[p].size > 15
      [] loc[p].op = "SetDataRate" ->
            loc[p].tmp \notin {DataRate250kbps, DataRate1mbps, DataRate2mbps}
      [] loc[p].op = "SetPALevel" ->
            loc[p].tmp \notin {PALevelMin, PALevelLow, PALevelHigh, PALevelMax}
      [] OTHER -> FALSE

\* The setters of ops refuse an argument outside their range: an error, no
\* transfer, the cache as it was at the call.
Validates(ops) ==
    \A p \in Procs :
        (pc[p] = "set_ret" /\ loc[p].op \in ops /\ SetterArgInvalid(p)) =>
            /\ loc[p].err # "nil"
            /\ xfer[p] = <<>>
            /\ config = hist[p].pre.config

\* C24: every setter called with an argument outside its range returns an
\* error, having written no register and left the cached configuration as
\* it was.
C24_ValidatesFirst == Validates(Setters)

\* The data rate and the PA level that the byte v of RF_SETUP selects.
RateOf(v) ==
    CASE Bit(v, 5) = 1 /\ Bit(v, 3) = 0 -> DataRate250kbps
      [] Bit(v, 5) = 0 /\ Bit(v, 3) = 1 -> DataRate2mbps
      [] Bit(v, 5) = 0 /\ Bit(v, 3) = 0 -> DataRate1mbps
      [] OTHER -> -1

LevelOf(v) == (v \div 2) % 4

\* C25: whenever no operation is inside a critical section, each cached
\* field is the value its register holds: RF_CH the channel, SETUP_AW the
\* address width less 2, SETUP_RETR the delay (in steps of 250 us, less 1)
\* and the count, RF_SETUP the data rate and the PA level.
C25_WriteThrough ==
    mu = NoProc =>
        /\ radio.reg[RF_CH] = config.ChannelNumber
        /\ radio.reg[SETUP_AW] = config.AddressWidth - 2
        /\ radio.reg[SETUP_RETR] \div 16 = config.AutoRetransmitDelay \div 250 - 1
        /\ radio.reg[SETUP_RETR] % 16 = config.AutoRetransmitCount
        /\ RateOf(radio.reg[RF_SETUP]) = config.DataRate
        /\ LevelOf(radio.reg[RF_SETUP]) = config.PALevel

\* The reference encoding of RF_SETUP.
RefRFSetup(rate, level) ==
    (IF rate = DataRate2mbps THEN 2 ^ 3 ELSE IF rate = DataRate250kbps THEN 2 ^ 5 ELSE 0)
    + 2 * level

ValidPair(c) ==
    /\ c.DataRate \in {DataRate250kbps, DataRate1mbps, DataRate2mbps}
    /\ c.PALevel \in {PALevelMin, PALevelLow, PALevelHigh, PALevelMax}

C27_BusErrorReported ==
    \A p \in Procs :
        (pc[p] = "set_ret" /\ hist[p].busErr) =>
            /\ loc[p].err # "nil"
            /\ config = hist[p].pre.config


\* The entries of kind k in the log l.
Notes(l, k) == {i \in 1..Len(l) : l[i].k = k}

\* Close's teardown, at each of its steps.  The mutex is held from the lock
\* to the return.  The first two transfers are the read of CONFIG and the
\* write of the value read with PWR_UP cleared and every other bit kept.
\* The port is closed and the IRQ subscription released after that write,
\* the port first when portFirst, the subscription first otherwise.  Close
\* returns nil, also when closing the port failed, which is logged.
Teardown(portFirst) ==
    \A p \in Procs :
        loc[p].op = "Close" =>
            LET l == xfer[p]
                after == Notes(l, "close") \cup Notes(l, "unwatch")
            IN  /\ pc[p] \notin {"cl_lock", "cl_ret"} => mu = p
                /\ pc[p] \in {"cl_port", "cl_irq", "cl_ret"} =>
                      /\ l[1].tx = <<CONFIG, NOP>>
                      /\ l[2].tx[1] = W_REGISTER + CONFIG
                      /\ SameBut(l[2].tx[2], readRegisterVal(l[1].rx), 1)
                      /\ Bit(l[2].tx[2], 1) = 0
                      /\ ~hist[p].busErr => OnlyBit(p, CONFIG, 1, 0)
                      /\ \A i \in after : i > 2
                /\ \A i \in Notes(l, "close"), j \in Notes(l, "unwatch") :
                      IF portFirst THEN i < j ELSE j < i
                /\ pc[p] = "cl_ret" =>
                      /\ loc[p].err = "nil"
                      /\ irq => Notes(l, "unwatch") # {} /\ ~watch
                      /\ \A i \in Notes(l, "warn") : i - 1 \in Notes(l, "close")

RxPNoOf(v) == (v \div 2) % 8

\* At Receive's return after a STATUS read with RX_P_NO = 0b111: that read
\* is the only transfer made, and nothing is returned.
C29_SingleRead ==
    \A p \in Procs :
        (pc[p] = "rx_ret" /\ RxPNoOf(readRegisterVal(xfer[p][1].rx)) = 7) =>
            /\ xfer[p] = <<[k |-> "spi", tx |-> <<STATUS, NOP>>, rx |-> xfer[p][1].rx]>>
            /\ ~loc[p].ok
            /\ loc[p].data = <<>>

\* The STATUS read of Receive on an empty RX FIFO goes straight to the
\* return, and neither it nor the return changes CE, a FIFO or a flag.
C29_Frame ==
    \A p \in Procs :
        /\ (pc[p] \in {"rd_avail", "rf_avail"} /\ pc'[p] # pc[p] /\ RxPNo(radio) = 7)
              => pc'[p] = "rx_ret" /\ ce' = ce /\ radio' = radio
        /\ (pc[p] = "rx_ret" /\ pc'[p] # pc[p]) => ce' = ce /\ radio' = radio

\* C29: when RX_P_NO of STATUS reads 0b111, Receive returns (none, false)
\* after that single STATUS read: no R_RX_PL_WID, R_RX_PAYLOAD, FLUSH_RX or
\* STATUS write is issued, and CE, the FIFOs and the status flags are left
\* as they were.
C29_EmptyFifo == []C29_SingleRead /\ [][C29_Frame]_vars

\* Receive returns nothing on an empty RX FIFO.
C29_Witness ==
    \E p \in Procs :
        /\ pc[p] = "rx_ret" /\ loc[p].op = "Receive" /\ ~loc[p].ok
        /\ Len(xfer[p]) = 1
        /\ RxPNoOf(xfer[p][1].rx[1]) = 7
        /\ radio.rxFifo = <<>>


\* WaitForInterrupt called by p itself (not by ReceiveBlocking).
InWait(p) == loc[p].op = "WaitForInterrupt"

\* Each step of WaitForInterrupt.  Without an IRQ pin the first step goes
\* to the return of the 'IRQ not configured' error.  With the pin Low (a
\* STATUS flag asserted) it goes to the STATUS read, leaving the queue
\* alone; otherwise to the wait.  The wait ends by taking a signal from the
\* queue, then the STATUS read, or by cancellation, then the return of the
\* error.  The STATUS read needs the mutex free and returns what the radio
\* shifts out.
C30_Steps ==
    \A p \in Procs :
        (InWait(p) /\ pc'[p] # pc[p]) =>
            /\ (pc[p] = "wfi_entry" /\ ~irq) =>
                  /\ pc'[p] = "wfi_ret"
                  /\ loc'[p].err = "ErrIrqNotConfigured"
                  /\ UNCHANGED <<radio, irqChan, xfer, mu>>
            /\ (pc[p] = "wfi_entry" /\ irq) =>
                  /\ pc'[p] = IF Flags(radio) # 0 THEN "wfi_rd" ELSE "wfi_select"
                  /\ UNCHANGED <<radio, irqChan, xfer, mu>>
            /\ pc[p] = "wfi_select" =>
                  \/ /\ pc'[p] = "wfi_rd"
                     /\ irqChan > 0 /\ irqChan' = irqChan - 1
                     /\ UNCHANGED <<radio, xfer, mu>>
                  \/ /\ pc'[p] = "wfi_ret"
                     /\ cancelled[p]
                     /\ loc'[p].err = "Cancelled"
                     /\ UNCHANGED <<radio, irqChan, xfer, mu>>
            /\ pc[p] = "wfi_rd" =>
                  /\ pc'[p] = "wfi_ret"
                  /\ mu = NoProc /\ mu' = NoProc
                  /\ loc'[p].err = "nil"
                  /\ loc'[p].status = StatusByte(radio)
                  /\ xfer'[p] = <<[k |-> "spi", tx |-> <<STATUS, NOP>>, rx |-> <<StatusByte(radio)>>]>>
                  /\ irqChan' = irqChan

\* WaitForInterrupt in progress and at its return: it waits only with an
\* IRQ pin that was High at the call; it has made no transfer unless it
\* returns a STATUS value.
C30_Outcomes ==
    \A p \in Procs :
        InWait(p) =>
            /\ pc[p] = "wfi_select" => irq /\ ~hist[p].pinLow /\ xfer[p] = <<>>
            /\ pc[p] = "wfi_ret" =>
                  /\ loc[p].err \in {"ErrIrqNotConfigured", "nil", "Cancelled"}
                  /\ loc[p].err = "ErrIrqNotConfigured" <=> ~irq
                  /\ loc[p].err # "nil" => xfer[p] = <<>>
                  /\ loc[p].err = "nil" => Len(xfer[p]) = 1
                  /\ hist[p].pinLow => loc[p].err = "nil"

\* C30: WaitForInterrupt returns the 'IRQ not configured' error without a
\* bus transfer and without waiting when no IRQ pin was supplied; with the
\* pin Low at the call it reads STATUS under the mutex and returns it
\* without waiting on the signal queue; its only other outcomes are a
\* STATUS value read after a wake from the queue and a cancellation error.
C30_WaitForInterrupt == []C30_Outcomes /\ [][C30_Steps]_vars

\* The pin was Low at the call and STATUS is returned with RX_DR set.
C30_Witness ==
    \E p \in Procs :
        /\ InWait(p) /\ pc[p] = "wfi_ret"
        /\ hist[p].pinLow
        /\ loc[p].err = "nil"
        /\ Bit(loc[p].status, 6) = 1
        /\ irqChan = 0


\* The steps at which an operation takes the mutex; at the last two the
\* lock, the transfer and the unlock are one step.
LockPoints ==
    {"tx_lock", "rx_lock", "pg_lock", "ap_lock", "op_lock", "cp_lock", "cl_lock",
     "sc_lock", "sd_lock", "sp_lock", "sr_lock", "sw_lock", "wfi_rd", "ci_wr"}

\* A step in which p makes a transfer or drives CE: it adds to p's log, or
\* repeats the STATUS poll of write.
DeviceStep(p) ==
    \/ xfer'[p] # xfer[p] /\ xfer'[p] # <<>>
    \/ pc[p] = "w_poll" /\ pc'[p] # pc[p]

\* Every transfer is made by a goroutine that holds the mutex: it took it
\* in an earlier step and has not released it, or takes it, makes the
\* transfer and releases it in this one step, which needs the mutex free.
C31_Held ==
    \A p \in Procs :
        DeviceStep(p) =>
            IF pc[p] \in {"wfi_rd", "ci_wr"} THEN mu = NoProc /\ mu' = NoProc
            ELSE mu = p

\* No goroutine comes to take the mutex while it holds it.
C31_NoReentry == \A p \in Procs : pc[p] \in LockPoints => mu # p

C32_CEDiscipline ==
    /\ ce => \/ Bit(radio.reg[CONFIG], 1) = 1 /\ Bit(radio.reg[CONFIG], 0) = 1
             \/ \E p \in Procs : pc[p] = "w_ce_lo"
    /\ \A p \in Procs : (loc[p].op \in PipeOps \cup Setters /\ mu = p) => ~ce
    /\ Bit(radio.reg[CONFIG], 1) = 0 => ~ce


\* A transmit target has been written to TX_ADDR since construction.
TxAddrSet == radio.areg[TX_ADDR_REG] # ResetRadio.areg[TX_ADDR_REG]

Mirrored == radio.areg[RX_ADDR_P0] = radio.areg[TX_ADDR_REG]

\* The transmit pulse: CE is High for the payload just loaded.
AtPulse(p) == pc[p] = "w_ce_lo"

\* C33, as stated: with auto-ack enabled, a TX address set and the bus
\* working, RX_ADDR_P0 holds the bytes of TX_ADDR between any two calls of
\* Transmit, TransmitNoAck, Ping, OpenRxPipe and CloseRxPipe, and at every
\* transmit pulse.
C33_MirrorAlways ==
    (config.EnableAutoAck /\ TxAddrSet /\ radio.miso = "chip")
        => \A p \in Solo : (pc[p] = "idle" \/ AtPulse(p)) => Mirrored

C33_AtPulse ==
    (config.EnableAutoAck /\ TxAddrSet /\ radio.miso = "chip")
        => \A p \in Solo :
               (\/ AtPulse(p)
                \/ pc[p] = "pg_ret"
                \/ pc[p] = "tx_ret" /\ loc[p].err # "ErrPayloadTooLarge") => Mirrored

\* A step that leaves RX_ADDR_P0 different from a TX address that is set is
\* the TX_ADDR write of set_tx_target, followed at once by the mirroring
\* write, or the address write of OpenRxPipe on pipe 0.
C33_Breaks ==
    (radio.miso = "chip" /\ radio'.miso = "chip" /\ (Mirrored \/ ~TxAddrSet)
     /\ TxAddrSet' /\ ~Mirrored')
        => \E p \in Solo : \/ (pc[p] = "ta_tx" /\ pc'[p] = "ta_rx")
                            \/ (pc[p] = "op_addr" /\ loc[p].tmp = 0)

C33_Restores ==
    \A p \in Solo :
        (pc[p] = "ta_rx" /\ pc'[p] # "ta_rx" /\ radio.miso = "chip") => Mirrored'

\* C33, amended: with auto-ack enabled, a TX address set and the bus working,
\* RX_ADDR_P0 holds the bytes of TX_ADDR at every transmit pulse and at the
\* return of Ping and of a Transmit or TransmitNoAck that passed its length
\* check; only OpenRxPipe on pipe 0 makes it differ outside set_tx_target,
\* until the next transmit.
C33_MirrorAtTransmit == []C33_AtPulse /\ [][C33_Breaks /\ C33_Restores]_vars

\* A transmit pulse with auto-ack enabled, made after a call of OpenRxPipe
\* had enabled pipe 2.
C33_Witness ==
    \E p \in Solo :
        /\ AtPulse(p) /\ ce /\ config.EnableAutoAck /\ radio.miso = "chip"
        /\ TxAddrSet /\ Mirrored
        /\ Bit(radio.reg[EN_RXADDR], 2) = 1


\* The entries of the log l that raise CE.
Raises(l) == {i \in 1..Len(l) : IsCE(l[i], TRUE)}

\* The entries i..j of l belong to stop_listening: CE Low, a read of CONFIG,
\* a write of CONFIG without PRIM_RX.
Standby(l, i, j) ==
    \A m \in i..j :
        \/ IsCE(l[m], FALSE)
        \/ IsCmd(l[m], readRegisterCmd(CONFIG))
        \/ l[m].k = "spi" /\ l[m].tx[1] = W_REGISTER + CONFIG /\ l[m].tx[2] % 2 = 0

\* The log of a transmission to dest, in order: stop_listening; TX_ADDR;
\* RX_ADDR_P0 with the same bytes; the payload; CE High, CE Low; the polls of
\* STATUS, the last of which shows TX_DS or MAX_RT unless the timer expired;
\* the write that clears STATUS (and FLUSH_TX after a failure);
\* start_listening.  CE is raised twice: for the pulse, after the payload,
\* and by start_listening.
InOrder(l, dest, err) ==
    LET n == Len(l)
        t == WritesTo(l, TX_ADDR_REG)
        r == WritesTo(l, RX_ADDR_P0)
        w == Entries(l, W_TX_PAYLOAD) \cup Entries(l, W_TX_PAYLOAD_NOACK)
        s == Entries(l, STATUS)
        c == WritesTo(l, STATUS)
    IN  /\ StopsAt(l, 1)
        /\ \E i \in t, k \in w :
              /\ t = {i} /\ r = {i + 1} /\ w = {k}
              /\ Standby(l, 1, i - 1)
              /\ l[i].tx = <<W_REGISTER + TX_ADDR_REG>> \o dest
              /\ Tail(l[i + 1].tx) = Tail(l[i].tx)
              /\ Standby(l, i + 2, k - 1)
              /\ Raises(l) = {k + 1, n - 2}
              /\ IsCE(l[k + 2], FALSE)
              /\ \E m \in c :
                    /\ c = {m, n - 1}
                    /\ s = k + 3 .. m - 1
                    /\ \A j \in s : Ended(l[j].rx[1]) <=> (j = m - 1 /\ err # "ErrTimeout")
                    /\ IsCmd(l[m], clearStatusCmd)
                    /\ \A j \in m + 1 .. n - 6 : IsCmd(l[j], flushTXCmd)
                    /\ StartsAt(l, n - 5)

C34_Sequence ==
    \A p \in Procs :
        (pc[p] = "tx_ret" /\ loc[p].op \in TxOps /\ ~OverLimit(p))
            => InOrder(xfer[p], loc[p].dest, loc[p].err)

\* The pulse: CE rises with PRIM_RX clear, right after the payload of this
\* call was written.
C34_Pulse ==
    \A p \in Procs :
        (loc[p].op \in TxOps /\ ~ce /\ ce' /\ pc'[p] = "w_ce_lo")
            => /\ Bit(radio.reg[CONFIG], 0) = 0
               /\ xfer[p][Len(xfer[p])].k = "spi"
               /\ xfer[p][Len(xfer[p])].tx[1] \in {W_TX_PAYLOAD, W_TX_PAYLOAD_NOACK}
               /\ radio.txFifo # <<>>

\* While a transmission holds the mutex, a step of another goroutine leaves
\* CE and the radio alone.
C34_Alone ==
    \A p, q \in Procs :
        (p # q /\ mu = p /\ loc[p].op \in TxOps /\ pc'[q] # pc[q])
            => ce' = ce /\ radio' = radio

\* C34: a Transmit or TransmitNoAck that passed its length check makes its
\* steps in the order stop_listening, TX_ADDR, RX_ADDR_P0 (same bytes),
\* payload, one CE pulse, STATUS polls until TX_DS, MAX_RT or the timeout,
\* STATUS clear, start_listening; CE is not raised before the payload is
\* written, PRIM_RX is clear at the pulse, and no other goroutine touches the
\* device in between.
C34_TransmitOrder == []C34_Sequence /\ [][C34_Pulse /\ C34_Alone]_vars

\* A transmission that ended with MAX_RT while another goroutine waited for
\* the mutex.
C34_Witness ==
    \E p, q \in Procs :
        /\ pc[p] = "tx_ret" /\ loc[p].op = "Transmit" /\ loc[p].err = "ErrMaxRetries"
        /\ pc[q] = "rx_lock"


\* C35: in dynamic-payload mode a Receive whose R_RX_PL_WID reports more
\* than 32 issues FLUSH_RX and returns no data; one whose R_RX_PL_WID reports
\* 0 issues FLUSH_RX, clears STATUS and returns no data; neither issues
\* R_RX_PAYLOAD.
C35_InvalidWidth ==
    \A p \in Solo :
        (pc[p] = "rx_ret" /\ config.EnableDynamicPayload)
            => LET l == xfer[p]
               IN  \A j \in Entries(l, R_RX_PL_WID) :
                      (l[j].rx[1] = 0 \/ l[j].rx[1] > MAX_PAYLOAD_BYTES)
                          => /\ \E i \in Entries(l, FLUSH_RX) : i > j
                             /\ l[j].rx[1] = 0
                                   => \E i \in j + 1 .. Len(l) : IsCmd(l[i], clearStatusCmd)
                             /\ ~loc[p].ok
                             /\ loc[p].data = <<>>
                             /\ Entries(l, R_RX_PAYLOAD) = {}


\* C36: the value ReceiveBlocking writes to STATUS after a wake-up without
\* RX_DR holds the flags that were asserted in the status it read and
\* nothing else: a subset of TX_DS|MAX_RT, never RX_DR, and no bit outside
\* RX_DR|TX_DS|MAX_RT (no RX_P_NO bit, no TX_FULL).
C36_OnlyAssertedFlags ==
    \A p \in Solo :
        (loc[p].op = "ReceiveBlocking" /\ Len(xfer[p]) = 1
         /\ xfer[p][1].k = "spi" /\ xfer[p][1].tx[1] = W_REGISTER + STATUS)
            => LET v == xfer[p][1].tx[2]
               IN  /\ And(v, RX_DR) = 0
                   /\ v = And(loc[p].status, Or(TX_DS, MAX_RT))
                   /\ And(v, 255 - Or(RX_DR, Or(TX_DS, MAX_RT))) = 0


\* C37: when Ping returns the device is listening again: CE is High and
\* PRIM_RX is set.
C37_PingReturnsListening ==
    \A p \in Solo :
        (pc[p] = "pg_ret" /\ loc[p].op = "Ping")
            => ce /\ Bit(radio.reg[CONFIG], 0) = 1


\* A Transmit or TransmitNoAck that passed its length check is about to
\* return: its last three steps were CE High, the write of all three flags
\* to STATUS and FLUSH_RX.
C38_EndsListening ==
    \A p \in Procs :
        (pc[p] = "tx_ret" /\ loc[p].op \in TxOps /\ loc[p].err # "ErrPayloadTooLarge")
            => EndsListening(xfer[p])

\* The last two steps of start_listening, at the radio: the STATUS write
\* clears RX_DR and FLUSH_RX leaves the RX FIFO empty, whatever it held.
C38_Discards ==
    \A p \in Procs :
        /\ (loc[p].op \in TxOps /\ pc[p] = "st_clear" /\ pc'[p] = "st_flush")
              => And(radio'.reg[STATUS], RX_DR) = 0
        /\ (loc[p].op \in TxOps /\ pc[p] = "st_flush" /\ pc'[p] # "st_flush")
              => radio'.rxFifo = <<>>

\* While a transmission holds the mutex no other goroutine takes a packet:
\* the RX FIFO loses no packet to a reader, and no goroutine's result
\* changes to a packet.
C38_Unread ==
    \A p, q \in Procs :
        (p # q /\ mu = p /\ loc[p].op \in TxOps)
            => /\ loc'[q].data \in {loc[q].data, <<>>}
               /\ pc[p] # "st_flush" => Len(radio'.rxFifo) >= Len(radio.rxFifo)

\* C38: every Transmit and TransmitNoAck that passes the length check ends
\* with start_listening, which clears RX_DR and issues FLUSH_RX; a packet that
\* was unread in the RX FIFO when the transmission took the mutex stays there
\* until that FLUSH_RX discards it, so no later or waiting receive returns it.
C38_TransmitDiscardsUnread == []C38_EndsListening /\ [][C38_Discards /\ C38_Unread]_vars

\* Transmit is about to flush two unread packets while another goroutine
\* waits for the mutex to receive.
C38_Witness ==
    \E p, q \in Procs :
        /\ loc[p].op \in TxOps /\ pc[p] = "st_flush" /\ mu = p
        /\ Len(radio.rxFifo) = 2
        /\ pc[q] = "rx_lock"


\* A packet in the RX FIFO whose width the driver cannot read: R_RX_PL_WID
\* reports 0 or more than 32 for it.
BadWidth == \E i \in 1..Len(radio.rxFifo) : radio.rxFifo[i].wid \notin 1..MAX_PAYLOAD_BYTES

\* ReceiveBlocking returns a packet.
ReturnsPacket(p) ==
    pc[p] = "rb_ret" /\ loc[p].op = "ReceiveBlocking" /\ loc[p].err = "nil" /\ loc[p].ok

\* C39: no lost wake-up.  On a device with an IRQ pin, a ReceiveBlocking
\* that is in progress with a packet in the RX FIFO (put there before or
\* during the call) eventually returns a packet, unless its context is
\* cancelled or a packet of invalid width is in the FIFO.
C39_NoLostWakeup ==
    \A p \in Solo :
        (irq /\ loc[p].op = "ReceiveBlocking" /\ pc[p] # "rb_ret" /\ radio.rxFifo # <<>>)
            ~> (ReturnsPacket(p) \/ cancelled[p] \/ BadWidth)

\* ReceiveBlocking returns a packet after it was woken by the IRQ token.
C39_Witness ==
    \E p \in Solo :
        /\ irq /\ ReturnsPacket(p) /\ ~cancelled[p]
        /\ hist[p].edge


\* The step writes CONFIG: it is a step of the caller p at one of the five
\* writes of CONFIG, and the value differs from the old one in at most the
\* one bit that write is for: PRIM_RX (bit 0) in stop_listening and
\* start_listening, PWR_UP (bit 1) in PowerDown, PowerUp and Close.
C40_OneBit ==
    radio'.reg[CONFIG] # radio.reg[CONFIG]
        => \E p \in Procs :
              /\ mu = p
              /\ \/ /\ pc[p] = "sl_wr"
                    /\ radio'.reg[CONFIG] = AndNot(radio.reg[CONFIG], PRIM_RX)
                 \/ /\ pc[p] = "st_wr"
                    /\ radio'.reg[CONFIG] = Or(radio.reg[CONFIG], PRIM_RX)
                 \/ /\ pc[p] \in {"pd_wr", "cl_wr"}
                    /\ radio'.reg[CONFIG] = AndNot(radio.reg[CONFIG], PWR_UP)
                 \/ /\ pc[p] = "pu_wr"
                    /\ radio'.reg[CONFIG] = Or(radio.reg[CONFIG], PWR_UP)

\* EN_CRC and CRCO are what construction wrote.
C40_CRCKept ==
    And(radio.reg[CONFIG], Or(EN_CRC, CRCO)) = And(configValue(config), Or(EN_CRC, CRCO))

\* A step of Transmit, TransmitNoAck, Ping or Receive leaves PWR_UP alone.
C40_PowerKept ==
    \A p \in Procs :
        (loc[p].op \in TxOps \cup {"Ping", "Receive"} /\ pc'[p] # pc[p])
            => Bit(radio'.reg[CONFIG], 1) = Bit(radio.reg[CONFIG], 1)

\* C40: after construction CONFIG changes only by a read-modify-write of one
\* bit: stop_listening and start_listening change PRIM_RX only; PowerUp,
\* PowerDown and Close change PWR_UP only; EN_CRC and CRCO keep the values
\* of construction; a transmission never changes PWR_UP.
C40_ConfigFrame == []C40_CRCKept /\ [][C40_OneBit /\ C40_PowerKept]_vars

\* PowerUp has set PWR_UP again on a device that a Ping had left a primary
\* transmitter, with the 8-bit CRC of construction.
C40_Witness ==
    \E p \in Solo :
        /\ pc[p] = "pu_sleep"
        /\ radio.reg[CONFIG] = Or(PWR_UP, EN_CRC)
        /\ hist[p].pre.radio.reg[CONFIG] = EN_CRC

=============================================================================
